---------------------------- MODULE Spec2Model ----------------------------
(***************************************************************************)
(* A model of budolib/budo_scraper.py: the trimmer registry (BudoTrimmer), *)
(* the persistence layer (BudoPersistence) and the two-tier HTML cache     *)
(* (BudoHtml, BudoWebscraper.scrape_url).                                  *)
(*                                                                         *)
(* Text is a sequence of one-character strings.  A file-system path is a   *)
(* sequence of names and a name is a sequence of symbols; the folder-name  *)
(* constants of BudoConfig are names of one symbol.                        *)
(*                                                                         *)
(* Every operation of the program is one action.  The action records the   *)
(* call in `call` and its outcome (value returned, exception raised, log   *)
(* lines written) in `ret`.                                                *)
(***************************************************************************)
EXTENDS Integers, Sequences, FiniteSets, TLC

VARIABLES
    config,             \* BudoConfig / BudoHtml feature flags
    webcache,           \* BudoHtml._webcache
    registry,           \* BudoTrimmer._trimmer_registry
    fs,                 \* the file system: existing path -> node
    in_recursion_loop,  \* BudoPersistence._in_recursion_loop
    net,                \* number of network retrievals made for each url
    trail,              \* how far a write, delete, read round trip has got
    logger,             \* BudoLogger's setup flags and its loggers
    call,               \* the operation called last, with its arguments
    ret                 \* the outcome of that call

vars == <<config, webcache, registry, fs, in_recursion_loop, net, trail, logger, call,
         ret>>

\* None, as what a function without a result returns
None == [none |-> TRUE]

\* an Optional argument: Python's None, or a value
Absent == [some |-> FALSE, val |-> <<>>]
Some(x) == [some |-> TRUE, val |-> x]

\* Op applied to the value of x: x is worked out once, as a local variable is
Bind(x, Op(_)) == CHOOSE y \in {Op(v) : v \in {x}} : TRUE

\* ------------------------------------------------------------------ bounds

\* longest text given to the bound step
MaxLen == 5
\* longest start or end marker
MaxMarker == 2
\* longest html given to trim_html
MaxHtml == 2
\* network retrievals counted per url
MaxFetches == 2
\* longest content of a file
MaxContent == 2

\* ------------------------------------------------------------------- text

Min(S) == CHOOSE x \in S : \A y \in S : x <= y
Max(S) == CHOOSE x \in S : \A y \in S : x >= y

\* every sequence over A of length at most n
SeqsUpTo(A, n) == UNION {[1..k -> A] : k \in 0..n}

\* text[i:j] of Python, 0 <= i <= j <= len(text)
Slice(text, i, j) == SubSeq(text, i + 1, j)

\* text.startswith(prefix, i)
StartsWith(text, prefix, i) ==
    /\ i + Len(prefix) <= Len(text)
    /\ Slice(text, i, i + Len(prefix)) = prefix

\* [i for i in range(len(text)) if text.startswith(marker, i)], an increasing
\* list, kept as the set of its elements
MarkerIndices(text, marker) ==
    {i \in 0..(Len(text) - 1) : StartsWith(text, marker, i)}

\* sub in text
Contains(text, sub) == \E i \in 0..Len(text) : StartsWith(text, sub, i)

\* sep.join of the characters of text, with sep before and after: what
\* text.replace("", sep) gives
RECURSIVE Interleave(_, _)
Interleave(text, sep) ==
    IF text = <<>> THEN sep
    ELSE sep \o <<Head(text)>> \o Interleave(Tail(text), sep)

\* text.replace(old, new): every non-overlapping occurrence, left to right
RECURSIVE ReplaceFrom(_, _, _)
ReplaceFrom(text, old, new) ==
    IF text = <<>> THEN <<>>
    ELSE IF StartsWith(text, old, 0)
         THEN new \o ReplaceFrom(Slice(text, Len(old), Len(text)), old, new)
         ELSE <<Head(text)>> \o ReplaceFrom(Tail(text), old, new)

StrReplace(text, old, new) ==
    IF old = <<>> THEN Interleave(text, new) ELSE ReplaceFrom(text, old, new)

\* ------------------------------------------------------------------ logger

Warning(msg) == [level |-> "warning", msg |-> msg]
Error(msg) == [level |-> "error", msg |-> msg]

Warnings(log) == {k \in 1..Len(log) : log[k].level = "warning"}

\* ------------------------------------------------------------- BudoTrimmer

\* _trim_start: the text and the lines it logs
TrimStart(text, start) ==
    LET start_indices == MarkerIndices(text, start) IN
    IF Cardinality(start_indices) = 0
    THEN [text |-> text, log |-> <<Warning("start_not_found")>>]
    ELSE IF Cardinality(start_indices) > 1
    THEN [text |-> text, log |-> <<Warning("start_multiple")>>]
    ELSE [text |-> Slice(text, Min(start_indices), Len(text)), log |-> <<>>]

TrimEndKeepsMarkerOut(text, end) ==
    LET end_indices == MarkerIndices(text, end) IN
    IF Cardinality(end_indices) = 0
    THEN [text |-> text, log |-> <<Warning("end_not_found")>>]
    ELSE IF Cardinality(end_indices) > 1
    THEN [text |-> text, log |-> <<Warning("end_multiple")>>]
    ELSE [text |-> Slice(text, 0, Max(end_indices)), log |-> <<>>]

\* _trim_end
TrimEnd(text, end) ==
    LET end_indices == MarkerIndices(text, end) IN
    IF Cardinality(end_indices) = 0
    THEN [text |-> text, log |-> <<Warning("end_not_found")>>]
    ELSE IF Cardinality(end_indices) > 1
    THEN [text |-> text, log |-> <<Warning("end_multiple")>>]
    ELSE [text |-> Slice(text, 0, Max(end_indices) + Len(end)), log |-> <<>>]

TrimStartAndEndStopsAfterStartWarning(text_to_trim, start, end) ==
    LET s == TrimStart(text_to_trim, start) IN
    IF s.log # <<>> THEN s
    ELSE LET e == TrimEnd(s.text, end) IN
         [text |-> e.text, log |-> s.log \o e.log]

TrimStartAndEndCountsEndInWholeText(text_to_trim, start, end) ==
    LET s == TrimStart(text_to_trim, start)
        e == IF Cardinality(MarkerIndices(text_to_trim, end)) > 1
             THEN [text |-> s.text, log |-> <<Warning("end_multiple")>>]
             ELSE TrimEnd(s.text, end)
    IN  [text |-> e.text, log |-> s.log \o e.log]

TrimStartAndEndTrimsEndFirst(text_to_trim, start, end) ==
    LET e == TrimEnd(text_to_trim, end)
        s == TrimStart(e.text, start)
    IN  [text |-> s.text, log |-> s.log \o e.log]

\* _trim_start_and_end
TrimStartAndEnd(text_to_trim, start, end) ==
    LET s == TrimStart(text_to_trim, start)
        e == TrimEnd(s.text, end)
    IN  [text |-> e.text, log |-> s.log \o e.log]

\* for old, new in items: text = text.replace(old, new)
RECURSIVE ReplaceEach(_, _)
ReplaceEach(text, items) ==
    IF items = <<>> THEN text
    ELSE ReplaceEach(StrReplace(text, Head(items)[1], Head(items)[2]), Tail(items))

ReplaceSubstringsLastPairFirst(text_to_trim, replacements) ==
    IF replacements.some
    THEN ReplaceEach(text_to_trim,
                     [k \in 1..Len(replacements.val) |->
                         replacements.val[Len(replacements.val) + 1 - k]])
    ELSE text_to_trim

\* _replace_substrings; replacements is None or a dict, kept as the list of
\* its (old, new) items in insertion order
ReplaceSubstrings(text_to_trim, replacements) ==
    IF replacements.some THEN ReplaceEach(text_to_trim, replacements.val)
    ELSE text_to_trim

\* for validation in validations: warn if validation not in text
RECURSIVE ValidateEach(_, _)
ValidateEach(text, validations) ==
    IF validations = <<>> THEN <<>>
    ELSE (IF Contains(text, Head(validations))
          THEN <<>> ELSE <<Warning("validation_not_found")>>)
         \o ValidateEach(text, Tail(validations))

\* _validate_remaining_text: the lines it logs (the text is returned as is)
ValidateRemainingText(text_to_trim, validations) ==
    IF validations.some THEN ValidateEach(text_to_trim, validations.val) ELSE <<>>

\* BudoTrimmer.__init__
BudoTrimmer(target_url, start, end, replacements, validations) ==
    [target_url |-> target_url, start |-> start, end |-> end,
     replacements |-> replacements, validations |-> validations]

\* trim_and_validate
TrimAndValidate(trimmer, text_to_trim) ==
    LET trimmed == TrimStartAndEnd(text_to_trim, trimmer.start, trimmer.end)
        replaced_text == ReplaceSubstrings(trimmed.text, trimmer.replacements)
    IN  [text |-> replaced_text,
         log |-> trimmed.log \o ValidateRemainingText(replaced_text, trimmer.validations)]


\* dict equality of two replacements arguments: None only equals None, and two
\* dicts are equal when they hold the same items, in whatever order
ReplacementsEqual(r1, r2) ==
    IF ~r1.some \/ ~r2.some THEN r1.some = r2.some
    ELSE {r1.val[k] : k \in 1..Len(r1.val)} = {r2.val[k] : k \in 1..Len(r2.val)}

TrimmersAreEqualIgnoringEnd(trimmer1, trimmer2) ==
    /\ trimmer1.target_url = trimmer2.target_url
    /\ trimmer1.start = trimmer2.start
    /\ ReplacementsEqual(trimmer1.replacements, trimmer2.replacements)
    /\ trimmer1.validations = trimmer2.validations

\* _trimmers_are_equal
TrimmersAreEqual(trimmer1, trimmer2) ==
    LET equal_url == trimmer1.target_url = trimmer2.target_url
        equal_start == trimmer1.start = trimmer2.start
        equal_end == trimmer1.end = trimmer2.end
        equal_replace == ReplacementsEqual(trimmer1.replacements, trimmer2.replacements)
        equal_validate == trimmer1.validations = trimmer2.validations
    IN  equal_url /\ equal_start /\ equal_end /\ equal_replace /\ equal_validate

\* dict[key] = value
Put(dict, key, value) ==
    [k \in DOMAIN dict \cup {key} |-> IF k = key THEN value ELSE dict[k]]

\* register_trimming_ruleset: the registry it leaves and the lines it logs
RegisterTrimmingRuleset(reg, target_url, start, end, replacements, validations) ==
    LET new_trimmer == BudoTrimmer(target_url, start, end, replacements, validations) IN
    [registry |-> Put(reg, target_url, new_trimmer),
     log |-> IF /\ target_url \in DOMAIN reg
                /\ ~TrimmersAreEqual(new_trimmer, reg[target_url])
             THEN <<Warning("trimmer_overwritten")>>
             ELSE <<>>]

TrimHtmlUsesFirstMatch(reg, url, html, trimmer) ==
    IF trimmer.some THEN TrimAndValidate(trimmer.val, html)
    ELSE LET matches == {key \in DOMAIN reg : Contains(url, key)} IN
         IF Cardinality(matches) >= 1
         THEN TrimAndValidate(reg[CHOOSE key \in matches : TRUE], html)
         ELSE [text |-> html, log |-> <<>>]

\* trim_html: the text it returns and the lines it logs
TrimHtml(reg, url, html, trimmer) ==
    IF trimmer.some THEN TrimAndValidate(trimmer.val, html)
    ELSE LET matches == {key \in DOMAIN reg : Contains(url, key)} IN
         IF Cardinality(matches) = 1
         THEN TrimAndValidate(reg[CHOOSE key \in matches : TRUE], html)
         ELSE IF Cardinality(matches) > 1
         THEN [text |-> html, log |-> <<Warning("url_matched_several_trimmers")>>]
         ELSE [text |-> html, log |-> <<>>]

\* --------------------------------------------------------- file system

\* pathlib: the parts of an absolute path begin with the root
Root == <<"/">>
Parent(path) == SubSeq(path, 1, Len(path) - 1)
Name(path) == path[Len(path)]
IsAbsolute(path) == path # <<>> /\ path[1] = Root

DirNode == [kind |-> "dir", gz |-> 0, data |-> <<>>]
\* a file holding text, gzip-compressed gz times
FileNode(gz, data) == [kind |-> "file", gz |-> gz, data |-> data]

\* a file the process may neither read nor write
LockedNode == [kind |-> "locked", gz |-> 0, data |-> <<>>]
\* a file holding a gzip stream that ends before its trailer
TruncatedNode == [kind |-> "truncated", gz |-> 1, data |-> <<>>]

Exists(f, path) == path \in DOMAIN f
IsDir(f, path) == path \in DOMAIN f /\ f[path].kind = "dir"
IsFile(f, path) == path \in DOMAIN f /\ f[path].kind # "dir"
IsLocked(f, path) == path \in DOMAIN f /\ f[path].kind = "locked"

\* os.remove
Remove(f, path) == [q \in DOMAIN f \ {path} |-> f[q]]

\* Path.mkdir(parents=True, exist_ok=True)
RECURSIVE MkdirParents(_, _)
MkdirParents(f, directory) ==
    IF directory \in DOMAIN f \/ Len(directory) <= 1 THEN f
    ELSE Put(MkdirParents(f, Parent(directory)), directory, DirNode)

\* what open(path, 'r') or open(path, 'rb') raises
OpenForReading(f, path) ==
    IF ~Exists(f, path) THEN "FileNotFoundError"
    ELSE IF IsDir(f, path) THEN "IsADirectoryError"
    ELSE IF IsLocked(f, path) THEN "PermissionError"
    ELSE "none"

\* what open(path, 'w') or open(path, 'wb') raises
OpenForWriting(f, path) ==
    IF IsDir(f, path) THEN "IsADirectoryError"
    ELSE IF IsLocked(f, path) THEN "PermissionError"
    ELSE IF IsFile(f, Parent(path)) THEN "NotADirectoryError"
    ELSE IF ~Exists(f, Parent(path)) THEN "FileNotFoundError"
    ELSE "none"

\* --------------------------------------------------------- BudoPersistence

\* BudoConfig.workspace_path, compressed_folder_name, uncompressed_folder_name
WorkspacePath == <<Root, <<"workspace">> >>
CompressedFolderName == <<"compressed_backups">>
UncompressedFolderName == <<"uncompressed_files">>

ResolvePathMakesNoDirectory(f, path) ==
    [fs |-> f, path |-> IF IsAbsolute(path) THEN path ELSE WorkspacePath \o path]

\* _resolve_path: the absolute path, and the file system with the parent
\* directory made
ResolvePath(f, path) ==
    LET absolute == IF IsAbsolute(path) THEN path ELSE WorkspacePath \o path IN
    [fs |-> IF Exists(f, Parent(absolute)) THEN f
            ELSE MkdirParents(f, Parent(absolute)),
     path |-> absolute]

AddSubfolderBesideTheFile(f, path, subfolder) ==
    LET r == ResolvePath(f, path) IN
    [fs |-> r.fs, path |-> Parent(r.path) \o <<subfolder, Name(r.path)>>]

\* _add_subfolder_to_end_of_path
AddSubfolderToEndOfPath(f, path, subfolder) ==
    LET r == ResolvePath(f, path) IN
    IF IsFile(r.fs, r.path)
    THEN [fs |-> r.fs, path |-> Parent(r.path) \o <<subfolder, Name(r.path)>>]
    ELSE [fs |-> r.fs, path |-> Append(r.path, subfolder)]

\* _generate_compressed_subpath
GenerateCompressedSubpath(f, path) ==
    AddSubfolderToEndOfPath(f, path, CompressedFolderName)

\* _generate_uncompressed_subpath
GenerateUncompressedSubpath(f, path) ==
    AddSubfolderToEndOfPath(f, path, UncompressedFolderName)

\* the except clauses of try_compress_file and try_decompress_file
LogForFailure(raised, not_found) ==
    IF raised = "FileNotFoundError" THEN <<Warning(not_found)>>
    ELSE IF raised = "PermissionError" THEN <<Error("permission_denied")>>
    ELSE <<Error("io_error")>>

\* what try_compress_file or try_decompress_file leaves: the file system,
\* whether it returned True, the exception it raised and the lines it logged
Copied(f, ok, raised, log) == [fs |-> f, ok |-> ok, raised |-> raised, log |-> log]

\* try_compress_file
TryCompressFile(f, path) ==
    LET c == GenerateCompressedSubpath(f, path)
        u == GenerateUncompressedSubpath(c.fs, path)
        f1 == u.fs
        compressed_path == c.path
        uncompressed_path == u.path
        source == OpenForReading(f1, uncompressed_path)
        target == OpenForWriting(f1, compressed_path)
    IN  IF source # "none"
        THEN Copied(f1, FALSE, "none",
                    LogForFailure(source, "file_not_found_for_compression"))
        ELSE IF target # "none"
        THEN Copied(f1, FALSE, "none",
                    LogForFailure(target, "file_not_found_for_compression"))
        ELSE Copied(Put(f1, compressed_path,
                        [f1[uncompressed_path] EXCEPT !.gz = @ + 1]),
                    TRUE, "none", <<>>)

TryDecompressFileCatchesEveryError(f, path) ==
    LET c == GenerateCompressedSubpath(f, path)
        u == GenerateUncompressedSubpath(c.fs, path)
        f1 == u.fs
        source == OpenForReading(f1, c.path)
        target == OpenForWriting(f1, u.path)
    IN  IF source # "none" \/ target # "none"
        THEN Copied(f1, FALSE, "none", <<Error("io_error")>>)
        ELSE IF f1[c.path].gz = 0 \/ f1[c.path].kind = "truncated"
        THEN Copied(Put(f1, u.path, FileNode(0, <<>>)), FALSE, "none",
                    <<Error("io_error")>>)
        ELSE Copied(Put(f1, u.path, [f1[c.path] EXCEPT !.gz = @ - 1]),
                    TRUE, "none", <<>>)

\* try_decompress_file
TryDecompressFile(f, path) ==
    LET c == GenerateCompressedSubpath(f, path)
        u == GenerateUncompressedSubpath(c.fs, path)
        f1 == u.fs
        compressed_path == c.path
        uncompressed_path == u.path
        source == OpenForReading(f1, compressed_path)
        target == OpenForWriting(f1, uncompressed_path)
    IN  IF source # "none"
        THEN Copied(f1, FALSE, "none",
                    LogForFailure(source, "compressed_file_not_found"))
        ELSE IF target # "none"
        THEN Copied(f1, FALSE, "none",
                    LogForFailure(target, "compressed_file_not_found"))
        ELSE IF f1[compressed_path].kind = "truncated" /\ f1[compressed_path].gz = 1
        \* the stream ends early: EOFError, which is no OSError and so is
        \* caught by no except clause, once the target is open
        THEN Copied(Put(f1, uncompressed_path, FileNode(0, <<>>)), FALSE,
                    "EOFError", <<>>)
        ELSE IF f1[compressed_path].gz = 0 /\ f1[compressed_path].data = <<>>
        \* an empty file reads as an empty stream
        THEN Copied(Put(f1, uncompressed_path, FileNode(0, <<>>)), TRUE, "none", <<>>)
        ELSE IF f1[compressed_path].gz = 0
        \* not gzip data: gzip.BadGzipFile, an OSError, once the target is open
        THEN Copied(Put(f1, uncompressed_path, FileNode(0, <<>>)), FALSE, "none",
                    LogForFailure("BadGzipFile", "compressed_file_not_found"))
        ELSE Copied(Put(f1, uncompressed_path,
                        [f1[compressed_path] EXCEPT !.gz = @ - 1]),
                    TRUE, "none", <<>>)

\* the outcome of a call: the file system and flag it leaves, the value it
\* returns or the exception it raises, the lines it logs, and how often it
\* called try_decompress_file and opened the file it reads
Outcome(f, flag, value, raised, log, decompressions, opens) ==
    [fs |-> f, flag |-> flag, value |-> value, raised |-> raised, log |-> log,
     decompressions |-> decompressions, opens |-> opens]

ReadTextfileReturnsEmptyWhenMissing(f, flag, cfg, path, missing_ok) ==
    LET r == ResolvePath(f, path)
        opened == OpenForReading(r.fs, r.path)
    IN  IF opened = "none" /\ r.fs[r.path].gz = 0
        THEN Outcome(r.fs, flag, r.fs[r.path].data, "none", <<>>, 0, 1)
        ELSE Outcome(r.fs, flag, <<>>, "none", <<>>, 0, 1)

RECURSIVE ReadTextfile(_, _, _, _, _)

\* what _try_recursive_call makes of the nested read_textfile call; log,
\* decompressions and opens include those of the caller so far
AfterNestedRead(nested, log) ==
    IF nested.raised # "none"
    THEN Outcome(nested.fs, nested.flag, None, nested.raised, log \o nested.log,
                 1 + nested.decompressions, 1 + nested.opens)
    ELSE Outcome(nested.fs, FALSE, nested.value, "none", log \o nested.log,
                 1 + nested.decompressions, 1 + nested.opens)

\* _try_recursive_call, called by read_textfile after a decompression that
\* logged `log`
TryRecursiveCall(f, flag, cfg, path, missing_ok, log) ==
    IF flag
    THEN Outcome(f, FALSE, <<>>, "none", log, 1, 1)
    ELSE AfterNestedRead(ReadTextfile(f, TRUE, cfg, path, missing_ok), log)

ReadMissingFileDecompressesAgain(f, flag, cfg, path, missing_ok, d) ==
    IF cfg.try_read_compressed_backups /\ ~d.ok
    THEN Bind(TryDecompressFile(d.fs, path), LAMBDA again :
              IF ~missing_ok
              THEN Outcome(again.fs, flag, None, "FileNotFoundError",
                           d.log \o again.log \o <<Error("file_not_found")>>, 2, 1)
              ELSE Outcome(again.fs, flag, <<>>, "none", d.log \o again.log, 2, 1))
    ELSE IF cfg.try_read_compressed_backups
    THEN TryRecursiveCall(d.fs, flag, cfg, path, missing_ok, d.log)
    ELSE IF ~missing_ok
         THEN Outcome(f, flag, None, "FileNotFoundError",
                      <<Error("file_not_found")>>, 0, 1)
         ELSE Outcome(f, flag, <<>>, "none", <<>>, 0, 1)

ReadMissingFileRetriesAnyway(f, flag, cfg, path, missing_ok, d) ==
    IF cfg.try_read_compressed_backups
    THEN Bind(AfterNestedRead(Outcome(d.fs, TRUE, None, OpenForReading(d.fs, path),
                                      <<>>, 0, 1), d.log),
              LAMBDA second :
                  IF ~missing_ok
                  THEN Outcome(second.fs, FALSE, None, "FileNotFoundError",
                               second.log \o <<Error("file_not_found")>>, 1,
                               1 + second.opens)
                  ELSE Outcome(second.fs, FALSE, <<>>, "none", second.log, 1,
                               1 + second.opens))
    ELSE IF ~missing_ok
         THEN Outcome(f, flag, None, "FileNotFoundError",
                      <<Error("file_not_found")>>, 0, 1)
         ELSE Outcome(f, flag, <<>>, "none", <<>>, 0, 1)

ReadMissingFileKeepsFlagWhenRaising(f, flag, cfg, path, missing_ok, d) ==
    IF cfg.try_read_compressed_backups /\ d.raised # "none"
    THEN Outcome(d.fs, TRUE, None, d.raised, d.log, 1, 1)
    ELSE IF cfg.try_read_compressed_backups /\ d.ok
    THEN TryRecursiveCall(d.fs, flag, cfg, path, missing_ok, d.log)
    ELSE IF cfg.try_read_compressed_backups
    THEN IF ~missing_ok
         THEN Outcome(d.fs, TRUE, None, "FileNotFoundError",
                      d.log \o <<Error("file_not_found")>>, 1, 1)
         ELSE Outcome(d.fs, flag, <<>>, "none", d.log, 1, 1)
    ELSE IF ~missing_ok
         THEN Outcome(f, flag, None, "FileNotFoundError",
                      <<Error("file_not_found")>>, 0, 1)
         ELSE Outcome(f, flag, <<>>, "none", <<>>, 0, 1)

\* the except FileNotFoundError clause of read_textfile
ReadMissingFile(f, flag, cfg, path, missing_ok, d) ==
    IF cfg.try_read_compressed_backups /\ d.raised # "none"
    THEN Outcome(d.fs, flag, None, d.raised, d.log, 1, 1)
    ELSE IF cfg.try_read_compressed_backups /\ d.ok
    THEN TryRecursiveCall(d.fs, flag, cfg, path, missing_ok, d.log)
    ELSE IF cfg.try_read_compressed_backups
    THEN IF ~missing_ok
         THEN Outcome(d.fs, flag, None, "FileNotFoundError",
                      d.log \o <<Error("file_not_found")>>, 1, 1)
         ELSE Outcome(d.fs, flag, <<>>, "none", d.log, 1, 1)
    ELSE IF ~missing_ok
         THEN Outcome(f, flag, None, "FileNotFoundError",
                      <<Error("file_not_found")>>, 0, 1)
         ELSE Outcome(f, flag, <<>>, "none", <<>>, 0, 1)

ReadResolvedReturnsEmptyWhenMissingOk(f, flag, cfg, path, missing_ok, opened) ==
    IF opened = "none"
    THEN IF f[path].gz = 0
         THEN Outcome(f, flag, f[path].data, "none", <<>>, 0, 1)
         ELSE Outcome(f, flag, None, "UnicodeDecodeError", <<>>, 0, 1)
    ELSE IF opened = "FileNotFoundError"
    THEN ReadMissingFile(f, flag, cfg, path, missing_ok, TryDecompressFile(f, path))
    ELSE IF missing_ok
    THEN Outcome(f, flag, <<>>, "none", <<Error("io_error")>>, 0, 1)
    ELSE Outcome(f, flag, None, opened, <<Error("io_error")>>, 0, 1)

\* what read_textfile does once the path is resolved
ReadResolved(f, flag, cfg, path, missing_ok, opened) ==
    IF opened = "none"
    THEN IF f[path].gz = 0
         THEN Outcome(f, flag, f[path].data, "none", <<>>, 0, 1)
         \* gzip data is not utf-8: no except clause catches the error
         ELSE Outcome(f, flag, None, "UnicodeDecodeError", <<>>, 0, 1)
    ELSE IF opened = "FileNotFoundError"
    THEN ReadMissingFile(f, flag, cfg, path, missing_ok, TryDecompressFile(f, path))
    ELSE IF opened = "PermissionError"
    THEN Outcome(f, flag, None, opened, <<Error("permission_denied")>>, 0, 1)
    ELSE Outcome(f, flag, None, opened, <<Error("io_error")>>, 0, 1)

\* read_textfile
ReadTextfile(f, flag, cfg, path, missing_ok) ==
    ReadResolved(ResolvePath(f, path).fs, flag, cfg, ResolvePath(f, path).path,
                 missing_ok,
                 OpenForReading(ResolvePath(f, path).fs, ResolvePath(f, path).path))

\* try_read_textfile
TryReadTextfile(f, flag, cfg, path) == ReadTextfile(f, flag, cfg, path, TRUE)

WriteTextfilePropagatesCompressionFailure(f, flag, cfg, path, content) ==
    LET r == ResolvePath(f, path)
        opened == OpenForWriting(r.fs, r.path)
        f1 == Put(r.fs, r.path, FileNode(0, content))
        log1 == IF content = <<>> THEN <<Warning("empty_file_created")>> ELSE <<>>
        c == TryCompressFile(f1, r.path)
    IN  IF opened = "none"
        THEN IF cfg.try_write_compressed_backups
             THEN Outcome(c.fs, flag, None, IF c.ok THEN "none" ELSE "IOError",
                          log1 \o c.log, 0, 0)
             ELSE Outcome(f1, flag, None, "none", log1, 0, 0)
        ELSE Outcome(r.fs, flag, None, opened, <<Error("io_error")>>, 0, 0)

WriteTextfileSkipsEmptyContent(f, flag, cfg, path, content) ==
    LET r == ResolvePath(f, path) IN
    IF content = <<>>
    THEN Outcome(r.fs, flag, None, "none", <<Warning("empty_file_created")>>, 0, 0)
    ELSE Outcome(Put(r.fs, r.path, FileNode(0, content)), flag, None, "none", <<>>, 0, 0)

\* write_textfile
WriteTextfile(f, flag, cfg, path, content) ==
    LET r == ResolvePath(f, path)
        opened == OpenForWriting(r.fs, r.path)
        f1 == Put(r.fs, r.path, FileNode(0, content))
        log1 == IF content = <<>> THEN <<Warning("empty_file_created")>> ELSE <<>>
        c == TryCompressFile(f1, r.path)
    IN  IF opened = "none"
        THEN IF cfg.try_write_compressed_backups
             THEN Outcome(c.fs, flag, None, c.raised, log1 \o c.log, 0, 0)
             ELSE Outcome(f1, flag, None, "none", log1, 0, 0)
        ELSE IF opened = "PermissionError"
        THEN Outcome(r.fs, flag, None, opened, <<Error("permission_denied")>>, 0, 0)
        ELSE Outcome(r.fs, flag, None, opened, <<Error("io_error")>>, 0, 0)

\* ---------------------------------------------------------------- urls

AsciiLowercase ==
    <<"a", "b", "c", "d", "e", "f", "g", "h", "i", "j", "k", "l", "m", "n",
    "o", "p", "q", "r", "s", "t", "u", "v", "w", "x", "y", "z">>
AsciiUppercase ==
    <<"A", "B", "C", "D", "E", "F", "G", "H", "I", "J", "K", "L", "M", "N",
    "O", "P", "Q", "R", "S", "T", "U", "V", "W", "X", "Y", "Z">>
Digits ==
    {"0", "1", "2", "3", "4", "5", "6", "7", "8", "9"}
AsciiLetters ==
    {AsciiLowercase[k] : k \in 1..26} \cup {AsciiUppercase[k] : k \in 1..26}

\* str.lower, one character
Lower(c) ==
    IF \E k \in 1..26 : AsciiUppercase[k] = c
    THEN AsciiLowercase[CHOOSE k \in 1..26 : AsciiUppercase[k] = c]
    ELSE c

LowerText(text) == [k \in 1..Len(text) |-> Lower(text[k])]

\* text.find(c, from): the first index at or after `from` that holds c, or -1
Find(text, c, from) ==
    LET found == {i \in from..(Len(text) - 1) : text[i + 1] = c} IN
    IF found = {} THEN -1 ELSE Min(found)

\* text.split(c)
RECURSIVE Split(_, _)
Split(text, c) ==
    IF Find(text, c, 0) = -1 THEN <<text>>
    ELSE <<Slice(text, 0, Find(text, c, 0))>>
         \o Bind(Slice(text, Find(text, c, 0) + 1, Len(text)),
                 LAMBDA rest : Split(rest, c))

\* c.join(parts)
RECURSIVE Join(_, _)
Join(parts, c) ==
    IF parts = <<>> THEN <<>>
    ELSE IF Len(parts) = 1 THEN parts[1]
    ELSE parts[1] \o <<c>> \o Bind(Tail(parts), LAMBDA rest : Join(rest, c))

\* text.strip(c)
LStrip(text, c) ==
    SubSeq(text, Min({k \in 1..Len(text) : text[k] # c} \cup {Len(text) + 1}), Len(text))
RStrip(text, c) ==
    SubSeq(text, 1, Max({k \in 1..Len(text) : text[k] # c} \cup {0}))
Strip(text, c) == Bind(LStrip(text, c), LAMBDA stripped : RStrip(stripped, c))

SchemeChars == AsciiLetters \cup Digits \cup {"+", "-", "."}

\* the scheme urlsplit finds, and the rest of the url after its colon
SplitScheme(url) ==
    LET i == Find(url, ":", 0) IN
    IF /\ i > 0
       /\ url[1] \in AsciiLetters
       /\ \A k \in 1..i : url[k] \in SchemeChars
    THEN [scheme |-> LowerText(Slice(url, 0, i)), rest |-> Slice(url, i + 1, Len(url))]
    ELSE [scheme |-> <<>>, rest |-> url]

\* the netloc urlsplit finds after "//", up to the first of "/", "?", "#"
SplitNetloc(rest) ==
    LET ends == {Find(rest, c, 2) : c \in {"/", "?", "#"}} \ {-1}
        delim == IF ends = {} THEN Len(rest) ELSE Min(ends)
    IN  IF Len(rest) >= 2 /\ rest[1] = "/" /\ rest[2] = "/"
        THEN [netloc |-> Slice(rest, 2, delim), rest |-> Slice(rest, delim, Len(rest))]
        ELSE [netloc |-> <<>>, rest |-> rest]

\* text.split(c, 1): what is before the first c, and what is after it
Before(text, c) ==
    IF Find(text, c, 0) = -1 THEN text ELSE Slice(text, 0, Find(text, c, 0))
After(text, c) ==
    IF Find(text, c, 0) = -1 THEN <<>> ELSE Slice(text, Find(text, c, 0) + 1, Len(text))

\* urllib.parse.urlparse, for a url without ";" (no params are split off),
\* brackets, tabs or line breaks
UrlComponents(s, n, no_fragment) ==
    [scheme |-> s.scheme, netloc |-> n.netloc,
     path |-> Before(no_fragment, "?"), query |-> After(no_fragment, "?"),
     fragment |-> After(n.rest, "#")]
UrlParse(url) ==
    Bind(SplitScheme(url), LAMBDA s :
    Bind(SplitNetloc(s.rest), LAMBDA n :
    Bind(Before(n.rest, "#"), LAMBDA no_fragment : UrlComponents(s, n, no_fragment))))

\* ---------------------------------------------------------------- BudoHtml

\* BudoConfig.html_webcache_folder, BudoHtml._default_webcache_file_ext
HtmlWebcacheFolder == WorkspacePath \o << <<"data">>, <<"webcache">> >>
DefaultWebcacheFileExt == <<".txt">>

\* _generate_foldername
JoinDomainParts(domain_parts) ==
    IF Len(domain_parts) > 1 /\ LowerText(domain_parts[1]) = <<"w", "w", "w">>
    THEN Join(Tail(domain_parts), "_")
    ELSE Join(domain_parts, "_")
GenerateFoldername(url) ==
    Bind(UrlParse(url).netloc, LAMBDA netloc :
    Bind(Split(netloc, ":")[1], LAMBDA domain :
    Bind(Split(domain, "."), LAMBDA all_parts :
    Bind(SubSeq(all_parts, 1, Len(all_parts) - 1), LAMBDA domain_parts :
         JoinDomainParts(domain_parts)))))

ValidChars == {"-", "_", "."} \cup AsciiLetters \cup Digits

\* ''.join(c if c in valid_chars else '_' for c in text)
Sanitize(text) ==
    [k \in 1..Len(text) |-> IF text[k] \in ValidChars THEN text[k] ELSE "_"]

GenerateFilenameWithoutFallback(url) ==
    Strip(StrReplace(Sanitize(UrlParse(url).path \o UrlParse(url).query),
                     <<"/">>, <<"_">>), "_")

\* _generate_filename
PathAndQuery(parsed_url) ==
    Bind(parsed_url.path \o parsed_url.query, LAMBDA joined :
         IF joined # <<>> /\ Head(joined) = "/" THEN Tail(joined) ELSE joined)
SanitizedFilename(path_and_query) ==
    Bind(Sanitize(path_and_query), LAMBDA sanitized :
    Bind(StrReplace(sanitized, <<"/">>, <<"_">>), LAMBDA replaced : Strip(replaced, "_")))
GenerateFilename(url) ==
    Bind(UrlParse(url), LAMBDA parsed_url :
    Bind(PathAndQuery(parsed_url), LAMBDA path_and_query :
    Bind(SanitizedFilename(path_and_query), LAMBDA sanitized_filename :
         IF sanitized_filename = <<>> THEN Sanitize(url) ELSE sanitized_filename)))

\* _get_path_for_cached_html; joining an empty folder name to a path leaves
\* the path as it is
GetPathForCachedHtml(url) ==
    Bind(GenerateFilename(url) \o DefaultWebcacheFileExt, LAMBDA file :
    Bind(GenerateFoldername(url), LAMBDA folder :
         IF folder = <<>> THEN Append(HtmlWebcacheFolder, file)
         ELSE HtmlWebcacheFolder \o <<folder, file>>))

\* the urls fetched: "h://x.io/a=1" and "h://x.io/a_1"
UrlA == <<"h", ":", "/", "/", "x", ".", "i", "o", "/", "a", "=", "1">>
UrlB == <<"h", ":", "/", "/", "x", ".", "i", "o", "/", "a", "_", "1">>
Urls == {UrlA, UrlB}

\* _get_path_for_cached_html, worked out once for each url
DerivedPath == [url \in Urls |-> GetPathForCachedHtml(url)]

\* the outcome of a BudoHtml call: the cache, file system and flag it leaves,
\* the value it returns or the exception it raises, the lines it logs, and
\* the number of retrievals (_send_request, webdriver) it made
CacheOutcome(wc, f, flag, value, raised, log, requests) ==
    [webcache |-> wc, fs |-> f, flag |-> flag, value |-> value, raised |-> raised,
     log |-> log, requests |-> requests]

\* the path argument, or the path derived from the url when it is None
PathOrDefault(url, path) ==
    IF path.some THEN path.val ELSE DerivedPath[url]

\* _search_url_in_local_webcache
SearchUrlInLocalWebcache(f, flag, cfg, url, path) ==
    IF cfg.read_webcache
    THEN Bind(PathOrDefault(url, path), LAMBDA p : TryReadTextfile(f, flag, cfg, p))
    ELSE Outcome(f, flag, <<>>, "none", <<>>, 0, 0)

\* try_get_cached_html once the url was not in the memory and
\* _search_url_in_local_webcache has given `found`
FoundOnDisk(wc, url, found) ==
    IF found.raised # "none"
    THEN CacheOutcome(wc, found.fs, found.flag, None, found.raised, found.log, 0)
    ELSE IF found.value # <<>>
    THEN CacheOutcome(Put(wc, url, found.value), found.fs, found.flag, found.value,
                      "none", found.log, 0)
    ELSE CacheOutcome(wc, found.fs, found.flag, <<>>, "none", found.log, 0)

TryGetCachedHtmlSearchesDiskFirst(wc, f, flag, cfg, url, path) ==
    Bind(SearchUrlInLocalWebcache(f, flag, cfg, url, path),
         LAMBDA found : IF found.raised = "none" /\ found.value = <<>> /\ url \in DOMAIN wc
                        THEN CacheOutcome(wc, found.fs, found.flag, wc[url], "none",
                                          found.log, 0)
                        ELSE FoundOnDisk(wc, url, found))

\* try_get_cached_html
TryGetCachedHtml(wc, f, flag, cfg, url, path) ==
    IF url \in DOMAIN wc
    THEN CacheOutcome(wc, f, flag, wc[url], "none", <<>>, 0)
    ELSE Bind(SearchUrlInLocalWebcache(f, flag, cfg, url, path),
              LAMBDA found : FoundOnDisk(wc, url, found))

\* _write_html_to_disk
WriteHtmlToDisk(f, flag, cfg, url, html, path) ==
    Bind(PathOrDefault(url, path), LAMBDA p : WriteTextfile(f, flag, cfg, p, html))

\* cache_html_for_later once _write_html_to_disk has given `disk`
Written(wc, trimmed_html, disk) ==
    CacheOutcome(wc, disk.fs, disk.flag, None, disk.raised,
                 trimmed_html.log \o disk.log, 0)

StoreTrimmedSkipsEmptyText(wc, f, flag, cfg, url, trimmed_html, path) ==
    IF trimmed_html.text = <<>>
    THEN CacheOutcome(wc, f, flag, None, "none", trimmed_html.log, 0)
    ELSE IF cfg.write_webcache
    THEN Bind(WriteHtmlToDisk(f, flag, cfg, url, trimmed_html.text, path),
              LAMBDA disk : Written(Put(wc, url, trimmed_html.text), trimmed_html, disk))
    ELSE CacheOutcome(Put(wc, url, trimmed_html.text), f, flag, None, "none",
                      trimmed_html.log, 0)

StoreTrimmedForgetsTheRest(wc, f, flag, cfg, url, trimmed_html, path) ==
    IF cfg.write_webcache
    THEN Bind(WriteHtmlToDisk(f, flag, cfg, url, trimmed_html.text, path),
              LAMBDA disk : Written(url :> trimmed_html.text, trimmed_html, disk))
    ELSE CacheOutcome(url :> trimmed_html.text, f, flag, None, "none",
                      trimmed_html.log, 0)

\* cache_html_for_later once trim_html has given `trimmed_html`
StoreTrimmed(wc, f, flag, cfg, url, trimmed_html, path) ==
    IF cfg.write_webcache
    THEN Bind(WriteHtmlToDisk(f, flag, cfg, url, trimmed_html.text, path),
              LAMBDA disk : Written(Put(wc, url, trimmed_html.text), trimmed_html, disk))
    ELSE CacheOutcome(Put(wc, url, trimmed_html.text), f, flag, None, "none",
                      trimmed_html.log, 0)

\* cache_html_for_later
CacheHtmlForLater(wc, reg, f, flag, cfg, url, html, path) ==
    Bind(TrimHtml(reg, url, html, Absent),
         LAMBDA trimmed_html : StoreTrimmed(wc, f, flag, cfg, url, trimmed_html, path))

\* what fetch_url gives after a retrieval: `response` is what _send_request
\* returned and logged, `stored` what cache_html_for_later did with it
Retrieved(cached, response, stored) ==
    CacheOutcome(stored.webcache, stored.fs, stored.flag,
                 IF stored.raised # "none" THEN None ELSE response.text,
                 stored.raised, cached.log \o response.log \o stored.log, 1)

RetrieveUnlessCachedTrimsCachedText(cached, reg, cfg, url, path, response) ==
    IF cached.raised # "none" THEN cached
    ELSE IF cached.value # <<>>
    THEN Bind(CacheHtmlForLater(cached.webcache, reg, cached.fs, cached.flag, cfg,
                                url, cached.value, path),
              LAMBDA stored :
                  CacheOutcome(stored.webcache, stored.fs, stored.flag,
                               IF stored.raised # "none" THEN None
                               ELSE stored.webcache[url],
                               stored.raised, cached.log \o stored.log, 0))
    ELSE Bind(CacheHtmlForLater(cached.webcache, reg, cached.fs, cached.flag, cfg,
                                url, response.text, path),
              LAMBDA stored : Retrieved(cached, response, stored))

\* the rest of fetch_url once try_get_cached_html has returned `cached`
RetrieveUnlessCached(cached, reg, cfg, url, path, response) ==
    IF cached.raised # "none" \/ cached.value # <<>> THEN cached
    ELSE Bind(CacheHtmlForLater(cached.webcache, reg, cached.fs, cached.flag, cfg,
                                url, response.text, path),
              LAMBDA stored : Retrieved(cached, response, stored))

\* fetch_url
FetchUrl(wc, reg, f, flag, cfg, url, path, response) ==
    Bind(TryGetCachedHtml(wc, f, flag, cfg, url, path),
         LAMBDA cached : RetrieveUnlessCached(cached, reg, cfg, url, path, response))

\* the path fetch_urls gives fetch_url for a url, and the warning it logs when
\* paths is a dict without the url
PathIn(paths, url) ==
    IF paths.some /\ url \in DOMAIN paths.val THEN Some(paths.val[url]) ELSE Absent
PathWarning(paths, url) ==
    IF paths.some /\ url \notin DOMAIN paths.val
    THEN <<Warning("path_for_url_not_found")>> ELSE <<>>

\* one turn of the loop of fetch_urls: `done` is the outcome of the turns
\* before (its value the html_dct, its requests the retrievals counted for
\* each url), `fetched` that of this turn's fetch_url
AfterFetch(done, url, warning, fetched) ==
    CacheOutcome(fetched.webcache, fetched.fs, fetched.flag,
                 IF fetched.raised # "none" THEN None
                 ELSE Put(done.value, url, fetched.value),
                 fetched.raised, done.log \o warning \o fetched.log,
                 IF fetched.requests = 0 THEN done.requests
                 ELSE Put(done.requests, url,
                          fetched.requests + (IF url \in DOMAIN done.requests
                                              THEN done.requests[url] ELSE 0)))

\* the loop of fetch_urls from the outcome `done` on; responses[k] is what
\* _send_request gives in the k-th turn if it is called
RECURSIVE FetchUrlsLoop(_, _, _, _, _, _)
FetchUrlsLoop(done, reg, cfg, urls, paths, responses) ==
    IF urls = <<>> \/ done.raised # "none" THEN done
    ELSE Bind(FetchUrl(done.webcache, reg, done.fs, done.flag, cfg, Head(urls),
                       PathIn(paths, Head(urls)), Head(responses)),
              LAMBDA fetched :
                  Bind(AfterFetch(done, Head(urls), PathWarning(paths, Head(urls)),
                                  fetched),
                       LAMBDA next : FetchUrlsLoop(next, reg, cfg, Tail(urls), paths,
                                                   Tail(responses))))

\* fetch_urls; `counts` are the retrievals counted for each url before the call
FetchUrls(wc, reg, f, flag, cfg, urls, paths, responses, counts) ==
    FetchUrlsLoop(CacheOutcome(wc, f, flag, <<>>, "none", <<>>, counts),
                  reg, cfg, urls, paths, responses)

\* scrape_url
ScrapeUrl(wc, reg, f, flag, cfg, use_selenium, url, path, response) ==
    IF ~use_selenium
    THEN FetchUrl(wc, reg, f, flag, cfg, url, Absent, response)
    ELSE Bind(TryGetCachedHtml(wc, f, flag, cfg, url, path),
              LAMBDA cached : RetrieveUnlessCached(cached, reg, cfg, url, path, response))

\* ------------------------------------------------------------ idle state

\* BudoConfig's feature flags as the source sets them
DefaultConfig ==
    [read_webcache |-> TRUE, write_webcache |-> TRUE,
     try_write_compressed_backups |-> TRUE, try_read_compressed_backups |-> TRUE]

EmptyDict == <<>>

Pending == [done |-> FALSE]

\* BudoLogger as the import leaves it: no setup begun, no logger made;
\* setups counts the executions of _run_setup
LoggerAtImport ==
    [setup_in_progress |-> FALSE, setup_done |-> FALSE, loggers |-> {}, setups |-> 0]

\* the class attributes as the module's import leaves them
ProcessStart ==
    /\ logger = LoggerAtImport
    /\ webcache = EmptyDict
    /\ registry = EmptyDict
    /\ in_recursion_loop = FALSE
    /\ net = EmptyDict
    /\ trail = [stage |-> "none", op |-> "none"]

\* ------------------------------------------- the bound step on its own

TextChars == {"a", "b", "n"}
MarkerChars == {"a", "b"}
Texts == SeqsUpTo(TextChars, MaxLen)
Markers == SeqsUpTo(MarkerChars, MaxMarker)

\* a text and a pair of markers, about to be given to _trim_start_and_end
TrimInit ==
    /\ ProcessStart
    /\ config = DefaultConfig
    /\ fs = EmptyDict
    /\ call \in {[op |-> "_trim_start_and_end", text |-> t, start |-> s, end |-> e] :
                    t \in Texts, s \in Markers, e \in Markers}
    /\ ret = Pending

\* BudoTrimmer._trim_start_and_end(text, start, end)
CallTrimStartAndEnd ==
    /\ call.op = "_trim_start_and_end"
    /\ ~ret.done
    /\ LET r == TrimStartAndEnd(call.text, call.start, call.end) IN
       ret' = [done |-> TRUE, raised |-> "none", text |-> r.text, log |-> r.log]
    /\ UNCHANGED <<logger, config, webcache, registry, fs, in_recursion_loop, net, trail, call>>

TrimNext == CallTrimStartAndEnd

SpecTrim == TrimInit /\ [][TrimNext]_vars

\* ------------------------------------------ properties of the bound step

\* the positions (1-based) of the characters of text at which marker begins
Occurrences(text, marker) ==
    {i \in 1..Len(text) :
        /\ i + Len(marker) - 1 <= Len(text)
        /\ SubSeq(text, i, i + Len(marker) - 1) = marker}

TheOccurrence(text, marker) == CHOOSE i \in Occurrences(text, marker) : TRUE

BoundStepDone == call.op = "_trim_start_and_end" /\ ret.done

\* the text the end marker is searched in: what the start step left
AfterStartStep ==
    IF Cardinality(Occurrences(call.text, call.start)) = 1
    THEN SubSeq(call.text, TheOccurrence(call.text, call.start), Len(call.text))
    ELSE call.text

StartAmbiguous == Cardinality(Occurrences(call.text, call.start)) # 1
EndAmbiguous == Cardinality(Occurrences(AfterStartStep, call.end)) # 1

StartWarned ==
    \E k \in Warnings(ret.log) : ret.log[k].msg \in {"start_not_found", "start_multiple"}
EndWarned ==
    \E k \in Warnings(ret.log) : ret.log[k].msg \in {"end_not_found", "end_multiple"}

\* C7: in the bound step each marker is judged on its own.  A start marker
\* that occurs zero times or several times leaves the front of the text as it
\* was and logs a warning; an end marker that occurs zero times or several
\* times in the text searched leaves the back as it was and logs a warning;
\* the side whose marker occurs once is trimmed all the same; nothing is
\* raised.
C7_MarkerAmbiguityPolicy ==
    BoundStepDone =>
        /\ ret.raised = "none"
        /\ StartAmbiguous =>
              /\ StartWarned
              /\ ret.text = SubSeq(call.text, 1, Len(ret.text))
        /\ EndAmbiguous =>
              /\ EndWarned
              /\ ret.text = SubSeq(AfterStartStep, 1, Len(AfterStartStep))
        /\ (StartAmbiguous /\ ~EndAmbiguous) =>
              ret.text = SubSeq(call.text, 1,
                                TheOccurrence(call.text, call.end) + Len(call.end) - 1)
        /\ (EndAmbiguous /\ ~StartAmbiguous) =>
              ret.text = SubSeq(call.text, TheOccurrence(call.text, call.start),
                                Len(call.text))

\* C7 witness: start occurs twice, end once, and the back of the text was cut
C7_Witness ==
    /\ BoundStepDone
    /\ call.start # <<>>
    /\ Cardinality(Occurrences(call.text, call.start)) = 2
    /\ ~EndAmbiguous
    /\ StartWarned
    /\ Len(ret.text) < Len(call.text)

\* C8: when start occurs once, end occurs once and start does not begin after
\* end, the bound step returns the text from the first character of start
\* through the last character of end.
C8_BoundCorrectness ==
    (/\ BoundStepDone
     /\ Cardinality(Occurrences(call.text, call.start)) = 1
     /\ Cardinality(Occurrences(call.text, call.end)) = 1
     /\ TheOccurrence(call.text, call.start) <= TheOccurrence(call.text, call.end))
    => ret.text = SubSeq(call.text, TheOccurrence(call.text, call.start),
                         TheOccurrence(call.text, call.end) + Len(call.end) - 1)

\* C8 witness: noise before start, a body between the markers, a trailer
\* after end, as in "noise<A>body</A>trailer"
C8_Witness ==
    /\ BoundStepDone
    /\ Cardinality(Occurrences(call.text, call.start)) = 1
    /\ Cardinality(Occurrences(call.text, call.end)) = 1
    /\ TheOccurrence(call.text, call.start) > 1
    /\ TheOccurrence(call.text, call.start) + Len(call.start)
          < TheOccurrence(call.text, call.end)
    /\ TheOccurrence(call.text, call.end) + Len(call.end) - 1 < Len(call.text)
    /\ ret.text = SubSeq(call.text, TheOccurrence(call.text, call.start),
                         TheOccurrence(call.text, call.end) + Len(call.end) - 1)

\* start occurs once in the text, and end twice: once beginning before start
\* and once beginning after it
EndOnBothSides ==
    /\ Cardinality(Occurrences(call.text, call.start)) = 1
    /\ Cardinality(Occurrences(call.text, call.end)) = 2
    /\ \E i, j \in Occurrences(call.text, call.end) :
           /\ i < TheOccurrence(call.text, call.start)
           /\ TheOccurrence(call.text, call.start) < j

LaterEnd == CHOOSE j \in Occurrences(call.text, call.end) :
                TheOccurrence(call.text, call.start) < j

\* C31: the occurrences of end are counted in what the start step left: when
\* start occurs once and end occurs once before it and once after it, the
\* bound step returns the text from start through the later end and logs no
\* warning about end.
C31_EndCountedAfterStartStep ==
    (BoundStepDone /\ EndOnBothSides) =>
        /\ ret.text = SubSeq(call.text, TheOccurrence(call.text, call.start),
                             LaterEnd + Len(call.end) - 1)
        /\ ~EndWarned
        /\ ret.log = <<>>

\* an end before start and a trailer after the later end, as in "bnabn" with
\* start "a" and end "b", which gives "ab"
C31_Witness ==
    /\ BoundStepDone
    /\ EndOnBothSides
    /\ call.end # <<>>
    /\ LaterEnd + Len(call.end) - 1 < Len(call.text)
    /\ Len(ret.text) < Len(call.text) - 1
    /\ ret.log = <<>>

\* ------------------------------------- the bound step on its own output

\* BudoTrimmer._trim_start_and_end(text, start, end) with the text the call
\* before has returned; trail keeps the text and the log of that call
CallTrimStartAndEndOnItsOutput ==
    /\ call.op = "_trim_start_and_end"
    /\ ret.done
    /\ trail.stage = "none"
    /\ LET r == TrimStartAndEnd(ret.text, call.start, call.end) IN
       ret' = [done |-> TRUE, raised |-> "none", text |-> r.text, log |-> r.log]
    /\ call' = [call EXCEPT !.text = ret.text]
    /\ trail' = [stage |-> "again", op |-> call.op, text |-> call.text, log |-> ret.log]
    /\ UNCHANGED <<logger, config, webcache, registry, fs, in_recursion_loop, net>>

AgainNext ==
    \/ CallTrimStartAndEnd
    \/ CallTrimStartAndEndOnItsOutput

SpecAgain == TrimInit /\ [][AgainNext]_vars

TrimmedAgain == call.op = "_trim_start_and_end" /\ ret.done /\ trail.stage = "again"

\* C33 as claimed: the bound step applied to its own output, with the same
\* markers, returns that output unchanged.
C33_BoundStepIsIdempotent ==
    TrimmedAgain => ret.text = call.text

\* C33 as amended: the bound step applied to its own output, with the same
\* markers, returns that output unchanged whenever start does not occur
\* several times in the text first given.
C33_IdempotentUnlessStartRepeats ==
    (TrimmedAgain /\ Cardinality(Occurrences(trail.text, call.start)) <= 1) =>
        ret.text = call.text

\* both sides of the text were cut by the first call, and the second call
\* leaves its output as it is
C33_Witness ==
    /\ TrimmedAgain
    /\ trail.log = <<>>
    /\ Cardinality(Occurrences(trail.text, call.start)) = 1
    /\ TheOccurrence(trail.text, call.start) > 1
    /\ Len(call.text) + TheOccurrence(trail.text, call.start) - 1 < Len(trail.text)
    /\ ret.text = call.text

\* ------------------------------------------------- the trimmer registry

\* "x.io/a=" is part of UrlA alone, "x.io/a" of both urls
TargetItem == <<"x", ".", "i", "o", "/", "a", "=">>
TargetSite == <<"x", ".", "i", "o", "/", "a">>
TargetUrls == {TargetItem, TargetSite}

HtmlChars == {"a", "b"}
Htmls == SeqsUpTo(HtmlChars, MaxHtml)

\* {"a": "b", "b": "a"} and {"b": "a", "a": "b"}
ReplaceAThenB == << <<(<<"a">>), (<<"b">>)>>, <<(<<"b">>), (<<"a">>)>> >>
ReplaceBThenA == << <<(<<"b">>), (<<"a">>)>>, <<(<<"a">>), (<<"b">>)>> >>

StartArgs == {<<"a">>}
EndArgs == {<<"a">>, <<"b">>}
ReplacementsArgs == {Absent, Some(ReplaceAThenB), Some(ReplaceBThenA)}
ValidationsArgs == {Absent, Some(<<(<<"a">>)>>)}

\* a trimmer passed to trim_html by the caller
ExplicitTrimmer == BudoTrimmer(<<>>, <<"b">>, <<"b">>, Absent, Absent)

Returned(value, log) == [done |-> TRUE, raised |-> "none", value |-> value, log |-> log]

RegInit ==
    /\ ProcessStart
    /\ config = DefaultConfig
    /\ fs = EmptyDict
    /\ call = [op |-> "import"]
    /\ ret = Returned(None, <<>>)

\* BudoTrimmer.register_trimming_ruleset(target_url, start, end, replacements,
\* validations); ret.before is the registry the call found
CallRegisterTrimmingRuleset ==
    \E target_url \in TargetUrls, start \in StartArgs, end \in EndArgs,
       replacements \in ReplacementsArgs, validations \in ValidationsArgs :
        LET r == RegisterTrimmingRuleset(registry, target_url, start, end,
                                         replacements, validations) IN
        /\ registry' = r.registry
        /\ call' = [op |-> "register_trimming_ruleset", target_url |-> target_url,
                    start |-> start, end |-> end, replacements |-> replacements,
                    validations |-> validations]
        /\ ret' = [done |-> TRUE, raised |-> "none", value |-> None, log |-> r.log,
                   before |-> registry]
        /\ UNCHANGED <<logger, config, webcache, fs, in_recursion_loop, net, trail>>

\* BudoTrimmer.trim_html(url, html, trimmer)
CallTrimHtml ==
    \E url \in Urls, html \in Htmls, trimmer \in {Absent, Some(ExplicitTrimmer)} :
        LET r == TrimHtml(registry, url, html, trimmer) IN
        /\ call' = [op |-> "trim_html", url |-> url, html |-> html, trimmer |-> trimmer]
        /\ ret' = Returned(r.text, r.log)
        /\ UNCHANGED <<logger, config, webcache, registry, fs, in_recursion_loop, net, trail>>

RegNext == CallRegisterTrimmingRuleset \/ CallTrimHtml

SpecReg == RegInit /\ [][RegNext]_vars

\* -------------------------------------------- properties of the registry

\* the registered target_urls that are part of url
Matching(url) ==
    {key \in DOMAIN registry :
        \E i \in 1..Len(url) :
            /\ i + Len(key) - 1 <= Len(url)
            /\ SubSeq(url, i, i + Len(key) - 1) = key}

TrimHtmlByRegistry == call.op = "trim_html" /\ ret.done /\ ~call.trimmer.some

\* C6: trim_html without an explicit ruleset applies the one registered
\* ruleset whose target_url is part of the url; when no ruleset or several
\* rulesets match, it returns the html unchanged and logs a warning.
C6_TrimHtmlPolicy ==
    TrimHtmlByRegistry =>
        IF Cardinality(Matching(call.url)) = 1
        THEN LET key == CHOOSE k \in Matching(call.url) : TRUE
                 r == TrimAndValidate(registry[key], call.html)
             IN  ret.value = r.text /\ ret.log = r.log
        ELSE /\ ret.value = call.html
             /\ Warnings(ret.log) # {}

\* the ruleset a register_trimming_ruleset call supplied
Supplied ==
    BudoTrimmer(call.target_url, call.start, call.end, call.replacements,
                call.validations)

RegisterDone == call.op = "register_trimming_ruleset" /\ ret.done

\* the keys of a dict given by its items, and what it maps a key to
Keys(items) == {items[k][1] : k \in 1..Len(items)}
Lookup(items, key) == {items[k][2] : k \in {j \in 1..Len(items) : items[j][1] = key}}

\* two rulesets differ in start, end, replacements (as mappings) or
\* validations (as lists)
Differ(t1, t2) ==
    \/ t1.start # t2.start
    \/ t1.end # t2.end
    \/ t1.replacements.some # t2.replacements.some
    \/ /\ t1.replacements.some
       /\ t2.replacements.some
       /\ \E old \in Keys(t1.replacements.val) \cup Keys(t2.replacements.val) :
             Lookup(t1.replacements.val, old) # Lookup(t2.replacements.val, old)
    \/ t1.validations # t2.validations

\* C9: register_trimming_ruleset leaves target_url mapped to the ruleset
\* supplied and raises nothing; it logs a warning exactly when target_url was
\* registered with a ruleset that differs from the one supplied; registering
\* the very same ruleset again logs nothing and changes the result of no
\* trim_html call.
C9_Registration ==
    RegisterDone =>
        /\ call.target_url \in DOMAIN registry
        /\ registry[call.target_url] = Supplied
        /\ ret.raised = "none"
        /\ (Warnings(ret.log) # {}) <=>
              /\ call.target_url \in DOMAIN ret.before
              /\ Differ(ret.before[call.target_url], Supplied)
        /\ (/\ call.target_url \in DOMAIN ret.before
            /\ ret.before[call.target_url] = Supplied)
           => /\ ret.log = <<>>
              /\ \A url \in Urls, html \in Htmls :
                    TrimHtml(ret.before, url, html, Absent)
                    = TrimHtml(registry, url, html, Absent)

\* C9 witness: a registered ruleset is replaced by one that differs from it in
\* the end marker alone, with a warning
C9_Witness ==
    /\ RegisterDone
    /\ call.target_url \in DOMAIN ret.before
    /\ ret.before[call.target_url].end # call.end
    /\ [ret.before[call.target_url] EXCEPT !.end = call.end] = Supplied
    /\ Warnings(ret.log) # {}
    /\ registry[call.target_url] = Supplied

\* the text after the first k pairs of items were applied to it, each to what
\* the pair before it left
RECURSIVE AfterPairs(_, _, _)
AfterPairs(text, items, k) ==
    IF k = 0 THEN text
    ELSE StrReplace(AfterPairs(text, items, k - 1), items[k][1], items[k][2])

\* the ruleset trim_html applies: the one registered ruleset whose target_url
\* is part of the url of the call
OneRulesetApplies == TrimHtmlByRegistry /\ Cardinality(Matching(call.url)) = 1
Applied == registry[CHOOSE key \in Matching(call.url) : TRUE]
AfterBoundStep == TrimStartAndEnd(call.html, Applied.start, Applied.end).text

\* C22: the text trim_html returns under a ruleset is the text the bound step
\* gives, with the pairs of replacements applied one after another in the
\* order of the mapping, each to the result of the pair before it; without
\* replacements it is the text the bound step gives.
C22_ReplaceStep ==
    OneRulesetApplies =>
        ret.value = IF Applied.replacements.some
                    THEN AfterPairs(AfterBoundStep, Applied.replacements.val,
                                    Len(Applied.replacements.val))
                    ELSE AfterBoundStep

\* C22 witness: "ab" under {"a": "b", "b": "a"} becomes "bb" and then "aa"
C22_Witness ==
    /\ OneRulesetApplies
    /\ Applied.replacements = Some(ReplaceAThenB)
    /\ AfterBoundStep = <<"a", "b">>
    /\ ret.value = <<"a", "a">>

\* C30: a register_trimming_ruleset call for a registered target_url that
\* logs no warning changes the text of no trim_html call.
C30_SilentRegistrationKeepsTrimming ==
    (RegisterDone /\ call.target_url \in DOMAIN ret.before /\ Warnings(ret.log) = {}) =>
        \A url \in Urls, html \in Htmls :
            TrimHtml(ret.before, url, html, Absent).text
            = TrimHtml(registry, url, html, Absent).text

\* ---------------------------------------------- the persistence layer

\* the str "d/f", relative to the workspace
FilePath == << <<"d">>, <<"f">> >>
FileContents == SeqsUpTo({"a"}, MaxContent)

NoNode == [kind |-> "absent", gz |-> 0, data |-> <<>>]

\* the file system holding the nodes of a layout that are there and whose
\* ancestors are directories
FileSystemOf(layout) ==
    [q \in {q \in DOMAIN layout :
               /\ layout[q].kind # "absent"
               /\ \A k \in 1..(Len(q) - 1) : layout[SubSeq(q, 1, k)].kind = "dir"}
     |-> layout[q]]

\* every file system in which the workspace is a directory and, under it, d,
\* d/f, the two backup folders of d and the files named f or beside f in them
\* are there or not; a compressed backup holds gzip data, whole or cut
\* short, or plain text; d/f and the files named f may be locked
InitialFileSystems ==
    LET P == WorkspacePath \o FilePath
        D == Parent(P)
        Plain == {FileNode(0, c) : c \in FileContents}
        Gzip == {FileNode(1, c) : c \in FileContents}
        Compressed == Gzip \cup {NoNode, FileNode(0, <<"a">>)}
    IN  {FileSystemOf(
            (<<Root>> :> DirNode) @@ (WorkspacePath :> DirNode) @@ (D :> d)
            @@ (P :> f)
            @@ (Append(P, CompressedFolderName) :> fc)
            @@ (Append(P, UncompressedFolderName) :> fu)
            @@ (Append(D, CompressedFolderName) :> cb)
            @@ (D \o <<CompressedFolderName, Name(P)>> :> cf)
            @@ (Append(D, UncompressedFolderName) :> ub)
            @@ (D \o <<UncompressedFolderName, Name(P)>> :> uf)) :
         d \in {NoNode, DirNode}, f \in Plain \cup {NoNode, DirNode, LockedNode},
         fc \in Gzip \cup {NoNode, TruncatedNode}, fu \in Plain \cup {NoNode},
         cb \in {NoNode, DirNode}, cf \in Compressed \cup {TruncatedNode, LockedNode},
         ub \in {NoNode, DirNode}, uf \in Plain \cup {NoNode, LockedNode}}

FileInit ==
    /\ ProcessStart
    /\ config \in {[DefaultConfig EXCEPT !.try_write_compressed_backups = w,
                                         !.try_read_compressed_backups = r] :
                      w \in BOOLEAN, r \in BOOLEAN}
    /\ fs \in InitialFileSystems
    /\ call = [op |-> "import"]
    /\ ret = Returned(None, <<>>)

Finished(r) ==
    [done |-> TRUE, raised |-> r.raised, value |-> r.value, log |-> r.log,
     decompressions |-> r.decompressions, opens |-> r.opens]

\* BudoPersistence.read_textfile(path, missing_ok)
CallReadTextfile ==
    \E missing_ok \in BOOLEAN :
        LET r == ReadTextfile(fs, in_recursion_loop, config, FilePath, missing_ok) IN
        /\ fs' = r.fs
        /\ in_recursion_loop' = r.flag
        /\ call' = [op |-> "read_textfile", path |-> FilePath,
                    missing_ok |-> missing_ok,
                    opened |-> OpenForReading(ResolvePath(fs, FilePath).fs,
                                              ResolvePath(fs, FilePath).path),
                    parent |-> Exists(fs, Parent(WorkspacePath \o FilePath))]
        /\ ret' = Finished(r)
        /\ trail' = IF trail.stage = "deleted"
                    THEN [trail EXCEPT !.stage = "read"]
                    ELSE [stage |-> "none"]
        /\ UNCHANGED <<logger, config, webcache, registry, net>>

\* BudoPersistence.write_textfile(path, content)
CallWriteTextfile ==
    \E content \in FileContents :
        LET r == WriteTextfile(fs, in_recursion_loop, config, FilePath, content) IN
        /\ fs' = r.fs
        /\ in_recursion_loop' = r.flag
        /\ call' = [op |-> "write_textfile", path |-> FilePath, content |-> content,
                    opened |-> OpenForWriting(ResolvePath(fs, FilePath).fs,
                                              ResolvePath(fs, FilePath).path),
                    parent |-> Exists(fs, Parent(WorkspacePath \o FilePath))]
        /\ ret' = Finished(r)
        /\ trail' = IF r.raised = "none" /\ config.try_write_compressed_backups
                    THEN [stage |-> "written", content |-> content]
                    ELSE [stage |-> "none"]
        /\ UNCHANGED <<logger, config, webcache, registry, net>>

\* BudoPersistence.try_compress_file(path)
CallTryCompressFile ==
    LET r == TryCompressFile(fs, FilePath) IN
    /\ fs' = r.fs
    /\ call' = [op |-> "try_compress_file", path |-> FilePath]
    /\ ret' = [Returned(IF r.raised = "none" THEN r.ok ELSE None, r.log)
                  EXCEPT !.raised = r.raised]
    /\ trail' = [stage |-> "none"]
    /\ UNCHANGED <<logger, config, webcache, registry, in_recursion_loop, net>>

\* BudoPersistence.try_decompress_file(path)
CallTryDecompressFile ==
    LET r == TryDecompressFile(fs, FilePath) IN
    /\ fs' = r.fs
    /\ call' = [op |-> "try_decompress_file", path |-> FilePath]
    /\ ret' = [Returned(IF r.raised = "none" THEN r.ok ELSE None, r.log)
                  EXCEPT !.raised = r.raised]
    /\ trail' = [stage |-> "none"]
    /\ UNCHANGED <<logger, config, webcache, registry, in_recursion_loop, net>>

\* the user deletes the file at path; nothing else is touched
DeleteFile ==
    /\ IsFile(fs, WorkspacePath \o FilePath)
    /\ fs' = Remove(fs, WorkspacePath \o FilePath)
    /\ call' = [op |-> "delete", path |-> FilePath]
    /\ ret' = Returned(None, <<>>)
    /\ trail' = IF trail.stage = "written"
                THEN [trail EXCEPT !.stage = "deleted"]
                ELSE [stage |-> "none"]
    /\ UNCHANGED <<logger, config, webcache, registry, in_recursion_loop, net>>

FileNext ==
    \/ CallReadTextfile
    \/ CallWriteTextfile
    \/ CallTryCompressFile
    \/ CallTryDecompressFile
    \/ DeleteFile

SpecFile == FileInit /\ [][FileNext]_vars

\* ------------------------------------ properties of the persistence layer

\* C4: a text written by write_textfile with compressed backups enabled, whose
\* file is then deleted, is what the next read_textfile of the path returns
\* (compressed-backup reading enabled), recovered by one decompression.
C4_CompressionFallback ==
    (trail.stage = "read" /\ config.try_read_compressed_backups)
    => /\ ret.raised = "none"
       /\ ret.value = trail.content
       /\ ret.decompressions = 1

ReadDone == call.op = "read_textfile" /\ ret.done

\* C5: a read_textfile call that leaves nothing at the path it read raises
\* FileNotFoundError when missing_ok is false and returns the empty string
\* when missing_ok is true.
C5_MissingFile ==
    (ReadDone /\ ~Exists(fs, WorkspacePath \o call.path))
    => IF call.missing_ok
       THEN ret.raised = "none" /\ ret.value = <<>>
       ELSE ret.raised = "FileNotFoundError"

\* C5 witness: the file is missing, the decompression was tried, and the call
\* with missing_ok false raised FileNotFoundError
C5_Witness ==
    /\ ReadDone
    /\ ~Exists(fs, WorkspacePath \o call.path)
    /\ ~call.missing_ok
    /\ ret.decompressions = 1
    /\ ret.raised = "FileNotFoundError"

\* the file written or read by the calls of SpecFile, the file beside it in
\* uncompressed_files (what try_compress_file reads once the file is there)
\* and the one in compressed_backups (what it writes)
PrimaryFile == WorkspacePath \o FilePath
UncompressedSibling == Parent(PrimaryFile) \o <<UncompressedFolderName, Name(PrimaryFile)>>
CompressedSibling == Parent(PrimaryFile) \o <<CompressedFolderName, Name(PrimaryFile)>>

WriteDone == call.op = "write_textfile" /\ ret.done
LoggedAt(level) == \E i \in DOMAIN ret.log : ret.log[i].level = level

\* C14: when opening the primary file fails in read_textfile for another
\* reason than its absence, or fails in write_textfile, the call logs an error
\* and raises that failure, whatever missing_ok is; it returns no text.
C14_IoFailuresPropagate ==
    /\ (ReadDone /\ call.opened \notin {"none", "FileNotFoundError"}) =>
           /\ ret.raised = call.opened
           /\ ret.value = None
           /\ LoggedAt("error")
    /\ (WriteDone /\ call.opened # "none") =>
           /\ ret.raised = call.opened
           /\ LoggedAt("error")

\* C14 witness: a read with missing_ok true of a file the process may not
\* read raised PermissionError
C14_Witness ==
    /\ ReadDone
    /\ call.missing_ok
    /\ call.opened = "PermissionError"
    /\ ret.raised = "PermissionError"
    /\ LoggedAt("error")

\* the compression step of the write_textfile call just made could not read
\* its source or could not write its target
CompressionFailed ==
    \/ OpenForReading(fs, UncompressedSibling) # "none"
    \/ OpenForWriting(fs, CompressedSibling) # "none"

CompressionFailureLogged ==
    \E i \in DOMAIN ret.log :
        ret.log[i].msg \in {"file_not_found_for_compression", "permission_denied",
                            "io_error"}

\* C15: a write_textfile call with compressed-backup writing enabled whose
\* primary write succeeds returns normally and leaves the content in the
\* primary file; a failure of the compression step is logged.
C15_CompressionFailureIsSwallowed ==
    (WriteDone /\ config.try_write_compressed_backups /\ call.opened = "none") =>
        /\ ret.raised = "none"
        /\ IsFile(fs, PrimaryFile)
        /\ fs[PrimaryFile] = FileNode(0, call.content)
        /\ CompressionFailed => CompressionFailureLogged

\* C15 witness: the compression step was denied its source, the call
\* returned and the primary file holds the content
C15_Witness ==
    /\ WriteDone /\ config.try_write_compressed_backups /\ call.opened = "none"
    /\ IsLocked(fs, UncompressedSibling)
    /\ ret.raised = "none"
    /\ ret.log = <<Error("permission_denied")>>
    /\ fs[PrimaryFile] = FileNode(0, <<"a">>)

\* C16: after a write_textfile call with compressed-backup writing enabled
\* that returned and logged no error, the file named as the primary file in
\* the compressed_backups folder beside it holds the compressed content.
C16_MirrorExists ==
    (WriteDone /\ config.try_write_compressed_backups /\ ret.raised = "none"
     /\ ~LoggedAt("error")) =>
        /\ IsFile(fs, CompressedSibling)
        /\ fs[CompressedSibling] = FileNode(1, call.content)

\* C17: try_compress_file and try_decompress_file raise nothing and return
\* True or False.
C17_NeverRaise ==
    (call.op \in {"try_compress_file", "try_decompress_file"} /\ ret.done) =>
        /\ ret.raised = "none"
        /\ ret.value \in BOOLEAN

C26_ParentIsCreated ==
    ((ReadDone \/ WriteDone) /\ ~call.parent) => IsDir(fs, Parent(PrimaryFile))

\* C26 witness: a read with missing_ok true found no parent directory and no
\* file, returned the empty string and left the parent directory
C26_Witness ==
    /\ ReadDone
    /\ ~call.parent
    /\ call.missing_ok
    /\ ret.raised = "none"
    /\ ret.value = <<>>
    /\ IsDir(fs, Parent(PrimaryFile))
    /\ ~Exists(fs, PrimaryFile)

\* -------------------------------------------------------- the html cache

\* the pages the site serves: nothing, or "nab"
RawPages == {<<>>, <<"n", "a", "b">>}

\* what _send_request or the webdriver returns: a page, or the empty string
\* after logging a failure
Responses ==
    {[text |-> page, log |-> <<>>] : page \in RawPages}
    \cup {[text |-> <<>>, log |-> <<Error("retrieval_failed")>>]}

\* start "a", end "b"; the same with every "a" and "b" erased; the same with
\* "b" put around every character ({"": "b"})
PlainRuleset == [start |-> <<"a">>, end |-> <<"b">>, replacements |-> Absent]
ErasingRuleset ==
    [start |-> <<"a">>, end |-> <<"b">>,
     replacements |-> Some(<< <<(<<"a">>), <<>> >>, <<(<<"b">>), <<>> >> >>)]
PaddingRuleset ==
    [start |-> <<"a">>, end |-> <<"b">>,
     replacements |-> Some(<< <<(<<>>), (<<"b">>)>> >>)]
CacheRulesets == {PlainRuleset, ErasingRuleset, PaddingRuleset}

\* the str "o/p", a path given to fetch_url by the caller
ExplicitPath == << <<"o">>, <<"p">> >>
PathArgs == {Absent, Some(ExplicitPath)}

\* the disk as earlier runs may have left it: the artifact of the two urls is
\* not there, is empty, or holds "ab"
CachedBefore ==
    LET base == (<<Root>> :> DirNode) @@ (WorkspacePath :> DirNode) IN
    {base} \cup {Put(MkdirParents(base, Parent(p)), p, FileNode(0, text)) :
                   p \in {DerivedPath[UrlA]}, text \in {<<>>, <<"a", "b">>}}

Init ==
    /\ ProcessStart
    /\ config \in {[DefaultConfig EXCEPT !.read_webcache = r, !.write_webcache = w] :
                      r \in BOOLEAN, w \in BOOLEAN}
    /\ fs \in CachedBefore
    /\ call = [op |-> "import"]
    /\ ret = Returned(None, <<>>)

\* the call made last and what it gave
Previous ==
    IF call.op \in {"fetch_url", "scrape_url"}
    THEN [stage |-> "previous", op |-> call.op, url |-> call.url, path |-> call.path,
          value |-> ret.value, raised |-> ret.raised]
    ELSE [stage |-> "previous", op |-> call.op]

Retrievals(url) == IF url \in DOMAIN net THEN net[url] ELSE 0

\* the retrievals of the run so far
TotalRetrievals == Retrievals(UrlA) + Retrievals(UrlB)

\* where the artifact of url is kept when fetch_url is given `path`
ArtifactPath(url, path) ==
    IF IsAbsolute(PathOrDefault(url, path)) THEN PathOrDefault(url, path)
    ELSE WorkspacePath \o PathOrDefault(url, path)

\* a total miss: the url is not in the memory and no artifact with text in it
\* is on the disk
TotalMiss(url, path) ==
    /\ url \notin DOMAIN webcache
    /\ ~(IsFile(fs, ArtifactPath(url, path)) /\ fs[ArtifactPath(url, path)].data # <<>>)

\* what the caller of fetch_url or scrape_url sees, with what the retrieval
\* gave if there was one and whether the call began as a total miss
Fetched(r, response, miss) ==
    [done |-> TRUE, raised |-> r.raised, value |-> r.value, log |-> r.log,
     requests |-> r.requests,
     raw |-> IF r.requests > 0 THEN response.text ELSE <<>>,
     miss |-> miss]

\* BudoHtml.fetch_url(url, path)
CallFetchUrl ==
    \E url \in Urls, path \in PathArgs, response \in Responses :
      \E r \in {FetchUrl(webcache, registry, fs, in_recursion_loop, config, url, path,
                         response)} :
        /\ TotalRetrievals < MaxFetches
        /\ webcache' = r.webcache
        /\ fs' = r.fs
        /\ in_recursion_loop' = r.flag
        /\ net' = IF r.requests > 0 THEN Put(net, url, Retrievals(url) + 1) ELSE net
        /\ call' = [op |-> "fetch_url", url |-> url, path |-> path]
        /\ ret' = Fetched(r, response, TotalMiss(url, path))
        /\ trail' = Previous
        /\ UNCHANGED <<logger, config, registry>>

\* BudoWebscraper.scrape_url(url, path), with use_selenium set or not
CallScrapeUrl ==
    \E url \in Urls, path \in PathArgs, response \in Responses,
       use_selenium \in BOOLEAN :
      \E r \in {ScrapeUrl(webcache, registry, fs, in_recursion_loop, config,
                           use_selenium, url, path, response)} :
        /\ TotalRetrievals < MaxFetches
        /\ webcache' = r.webcache
        /\ fs' = r.fs
        /\ in_recursion_loop' = r.flag
        /\ net' = IF r.requests > 0 THEN Put(net, url, Retrievals(url) + 1) ELSE net
        /\ call' = [op |-> "scrape_url", url |-> url, path |-> path,
                    use_selenium |-> use_selenium]
        /\ ret' = Fetched(r, response, TotalMiss(url, path))
        /\ trail' = Previous
        /\ UNCHANGED <<logger, config, registry>>

\* BudoTrimmer.register_trimming_ruleset(target_url, start, end, replacements),
\* as an extraction module calls it once when it is loaded
RegisterRuleset ==
    \E target_url \in TargetUrls, ruleset \in CacheRulesets :
        LET r == RegisterTrimmingRuleset(registry, target_url, ruleset.start,
                                         ruleset.end, ruleset.replacements, Absent) IN
        /\ registry = EmptyDict
        /\ registry' = r.registry
        /\ call' = [op |-> "register_trimming_ruleset", target_url |-> target_url,
                    start |-> ruleset.start, end |-> ruleset.end,
                    replacements |-> ruleset.replacements, validations |-> Absent]
        /\ ret' = Returned(None, r.log)
        /\ trail' = Previous
        /\ UNCHANGED <<logger, config, webcache, fs, in_recursion_loop, net>>

Next == CallFetchUrl \/ CallScrapeUrl \/ RegisterRuleset

Spec == Init /\ [][Next]_vars

\* ------------------------------------------- properties of the html cache

FetchDone == call.op = "fetch_url" /\ ret.done /\ ret.raised = "none"

\* the artifact of the url of the call is on the disk and holds `text`
ArtifactHolds(text) ==
    /\ IsFile(fs, ArtifactPath(call.url, call.path))
    /\ fs[ArtifactPath(call.url, call.path)] = FileNode(0, text)

\* C1: a fetch_url that began as a total miss returns the text it stored: the
\* value of the url in the in-memory map and, when writing to the disk is
\* enabled, the content of the artifact.
C1_ReturnsStoredText ==
    (FetchDone /\ ret.miss) =>
        /\ call.url \in DOMAIN webcache
        /\ ret.value = webcache[call.url]
        /\ config.write_webcache => ArtifactHolds(ret.value)

\* C2: in one run no url is retrieved from the network more than once.
C2_OneRetrievalPerUrl ==
    \A url \in Urls : Retrievals(url) <= 1

\* C3: a fetch_url(url) that follows a fetch_url(url) at once returns the
\* text the first one returned (stated for a second call that is served
\* from the cache, so that the network has no say in what it returns).
C3_SameTextTwice ==
    (/\ FetchDone /\ call.path = Absent /\ ret.requests = 0
     /\ trail.op = "fetch_url" /\ trail.url = call.url /\ trail.path = Absent
     /\ trail.raised = "none") =>
        ret.value = trail.value

\* no ruleset registered for the url of the call changes the empty text
EmptyTextIsKept ==
    \A target_url \in DOMAIN registry :
        Contains(call.url, target_url) =>
            \/ ~registry[target_url].replacements.some
            \/ \A k \in 1..Len(registry[target_url].replacements.val) :
                   \/ registry[target_url].replacements.val[k][1] # <<>>
                   \/ registry[target_url].replacements.val[k][2] = <<>>

\* C10: after a fetch_url whose retrieval gave the empty text, no ruleset
\* changing the empty text, the in-memory map holds the empty text for the
\* url, the artifact exists and is empty when writing to the disk is enabled,
\* and the call has returned the empty text.
C10_EmptyFetchIsCached ==
    (call.op = "fetch_url" /\ ret.done /\ ret.requests = 1 /\ ret.raw = <<>>
     /\ EmptyTextIsKept) =>
        /\ ret.raised = "none"
        /\ ret.value = <<>>
        /\ call.url \in DOMAIN webcache
        /\ webcache[call.url] = <<>>
        /\ config.write_webcache => ArtifactHolds(<<>>)

\* a failed retrieval for a url with the plain ruleset, writing enabled: the
\* empty text is in the map and in the artifact
C10_Witness ==
    /\ call.op = "fetch_url" /\ ret.done /\ ret.requests = 1 /\ ret.raw = <<>>
    /\ ret.log # <<>>
    /\ EmptyTextIsKept
    /\ registry # EmptyDict
    /\ config.write_webcache
    /\ webcache[call.url] = <<>>
    /\ ArtifactHolds(<<>>)
    /\ ret.value = <<>>

\* --------------------------------------------- the two tiers of the cache

\* the pages the site serves in this specification
CachePages == {[text |-> page, log |-> <<>>] : page \in RawPages}

\* the registry after the import of an extraction module that registers the
\* plain ruleset for both urls
RegisteredBefore ==
    RegisterTrimmingRuleset(EmptyDict, TargetSite, PlainRuleset.start, PlainRuleset.end,
                            PlainRuleset.replacements, Absent).registry

\* the arguments of fetch_urls: two urls, no paths or a dict with a
\* path for UrlA alone
UrlLists == {<<UrlA, UrlB>>, <<UrlA, UrlA>>}
PathDicts == {Absent, Some(UrlA :> ExplicitPath)}

CacheInit ==
    /\ logger = LoggerAtImport
    /\ webcache = EmptyDict
    /\ registry = RegisteredBefore
    /\ in_recursion_loop = FALSE
    /\ net = EmptyDict
    /\ trail = [stage |-> "none", op |-> "none"]
    /\ config \in {[DefaultConfig EXCEPT !.read_webcache = r, !.write_webcache = w] :
                      r \in BOOLEAN, w \in BOOLEAN}
    /\ fs \in CachedBefore
    /\ call = [op |-> "import"]
    /\ ret = Returned(None, <<>>)

\* the cache and the disk as they are when a call begins
Snapshot ==
    [stage |-> "before", op |-> call.op, webcache |-> webcache, fs |-> fs, net |-> net]

\* what the caller of a BudoHtml function sees
Answered(r) ==
    [done |-> TRUE, raised |-> r.raised, value |-> r.value, log |-> r.log,
     requests |-> r.requests]

\* BudoHtml.fetch_url(url, path)
DoFetchUrl ==
    \E url \in Urls, path \in PathArgs, response \in CachePages :
      \E r \in {FetchUrl(webcache, registry, fs, in_recursion_loop, config, url, path,
                         response)} :
        /\ TotalRetrievals < MaxFetches
        /\ webcache' = r.webcache
        /\ fs' = r.fs
        /\ in_recursion_loop' = r.flag
        /\ net' = IF r.requests > 0 THEN Put(net, url, Retrievals(url) + 1) ELSE net
        /\ call' = [op |-> "fetch_url", url |-> url, path |-> path]
        /\ ret' = Answered(r)
        /\ trail' = Snapshot
        /\ UNCHANGED <<logger, config, registry>>

\* BudoHtml.fetch_urls(urls, paths)
DoFetchUrls ==
    \E urls \in UrlLists, paths \in PathDicts, response \in CachePages :
      \E r \in {FetchUrls(webcache, registry, fs, in_recursion_loop, config, urls, paths,
                          <<response, response>>, net)} :
        /\ TotalRetrievals + Len(urls) <= MaxFetches
        /\ webcache' = r.webcache
        /\ fs' = r.fs
        /\ in_recursion_loop' = r.flag
        /\ net' = r.requests
        /\ call' = [op |-> "fetch_urls", urls |-> urls, paths |-> paths]
        /\ ret' = Answered(r)
        /\ trail' = Snapshot
        /\ UNCHANGED <<logger, config, registry>>

\* BudoWebscraper.scrape_url(url), with use_selenium set or not
DoScrapeUrl ==
    \E url \in Urls, path \in {Absent}, response \in CachePages,
       use_selenium \in BOOLEAN :
      \E r \in {ScrapeUrl(webcache, registry, fs, in_recursion_loop, config,
                          use_selenium, url, path, response)} :
        /\ TotalRetrievals < MaxFetches
        /\ webcache' = r.webcache
        /\ fs' = r.fs
        /\ in_recursion_loop' = r.flag
        /\ net' = IF r.requests > 0 THEN Put(net, url, Retrievals(url) + 1) ELSE net
        /\ call' = [op |-> "scrape_url", url |-> url, path |-> path,
                    use_selenium |-> use_selenium]
        /\ ret' = Answered(r)
        /\ trail' = Snapshot
        /\ UNCHANGED <<logger, config, registry>>

\* BudoHtml.cache_html_for_later(url, html)
DoCacheHtmlForLater ==
    \E url \in Urls, path \in {Absent}, html \in RawPages :
      \E r \in {CacheHtmlForLater(webcache, registry, fs, in_recursion_loop, config,
                                  url, html, path)} :
        /\ webcache' = r.webcache
        /\ fs' = r.fs
        /\ in_recursion_loop' = r.flag
        /\ call' = [op |-> "cache_html_for_later", url |-> url, path |-> path,
                    html |-> html]
        /\ ret' = Answered(r)
        /\ trail' = Snapshot
        /\ UNCHANGED <<logger, config, registry, net>>

\* BudoHtml.try_get_cached_html(url, path)
DoTryGetCachedHtml ==
    \E url \in Urls, path \in PathArgs :
      \E r \in {TryGetCachedHtml(webcache, fs, in_recursion_loop, config, url, path)} :
        /\ webcache' = r.webcache
        /\ fs' = r.fs
        /\ in_recursion_loop' = r.flag
        /\ call' = [op |-> "try_get_cached_html", url |-> url, path |-> path]
        /\ ret' = Answered(r)
        /\ trail' = Snapshot
        /\ UNCHANGED <<logger, config, registry, net>>

CacheNext ==
    \/ DoFetchUrl
    \/ DoFetchUrls
    \/ DoScrapeUrl
    \/ DoCacheHtmlForLater
    \/ DoTryGetCachedHtml

SpecCache == CacheInit /\ [][CacheNext]_vars

\* --------------------------------------- properties of the two tiers

\* the call is a `op` that has ended, and how the cache and the disk were
\* when it began is known
Ended(op) == call.op = op /\ ret.done /\ trail.stage = "before"

\* C11: a fetch_url for a url that is a key of the in-memory map leaves the
\* map and the disk as they were and retrieves nothing.
C11_RefetchIsPureRead ==
    (Ended("fetch_url") /\ call.url \in DOMAIN trail.webcache) =>
        /\ webcache = trail.webcache
        /\ fs = trail.fs
        /\ net = trail.net
        /\ ret.requests = 0

\* the artifact of the url of the call held the text when the call began
ArtifactHeld(text) ==
    /\ IsFile(trail.fs, ArtifactPath(call.url, call.path))
    /\ trail.fs[ArtifactPath(call.url, call.path)] = FileNode(0, text)

\* the text of the artifact of the url of the call when the call began
ArtifactText == trail.fs[ArtifactPath(call.url, call.path)].data

\* the artifact was a readable file of plain text, and not an empty one
ArtifactHeldText == ArtifactHeld(ArtifactText) /\ ArtifactText # <<>>

\* C12: try_get_cached_html returns the value of a url that is a key of the
\* in-memory map and touches neither the map nor the disk; fetch_url for a
\* url that is no key, reading from the disk enabled and the artifact at the
\* derived or given path holding text, returns that text, puts it in the map
\* under the url and retrieves nothing.
C12_TierOrder ==
    /\ (Ended("try_get_cached_html") /\ call.url \in DOMAIN trail.webcache) =>
           /\ ret.raised = "none"
           /\ ret.value = trail.webcache[call.url]
           /\ webcache = trail.webcache
           /\ fs = trail.fs
    /\ (/\ Ended("fetch_url") /\ call.url \notin DOMAIN trail.webcache
        /\ config.read_webcache /\ ArtifactHeldText) =>
           /\ ret.raised = "none"
           /\ ret.value = ArtifactText
           /\ call.url \in DOMAIN webcache
           /\ webcache[call.url] = ArtifactText
           /\ webcache = Put(trail.webcache, call.url, ArtifactText)
           /\ ret.requests = 0
           /\ net = trail.net

\* C12 witness: the text of the artifact at the path given to fetch_url is
\* returned and copied into the map, which holds another url already
C12_Witness ==
    /\ Ended("fetch_url")
    /\ call.path = Some(ExplicitPath)
    /\ call.url \notin DOMAIN trail.webcache
    /\ trail.webcache # EmptyDict
    /\ config.read_webcache
    /\ ArtifactHeld(<<"a", "b">>)
    /\ ret.value = <<"a", "b">>
    /\ webcache[call.url] = <<"a", "b">>
    /\ ret.requests = 0

\* C13: no call removes a key from the in-memory map.
C13_KeysOnlyGrow ==
    trail.stage = "before" => DOMAIN trail.webcache \subseteq DOMAIN webcache

\* C13 witness: a call added a key to a map that had one, which it kept
C13_Witness ==
    /\ Ended("cache_html_for_later")
    /\ DOMAIN trail.webcache = {UrlA}
    /\ DOMAIN webcache = {UrlA, UrlB}
    /\ webcache[UrlA] = trail.webcache[UrlA]

\* ------------------------------------------- the path derived from a url

MaxTail == 3

\* what a url begins with: nothing, a scheme alone, or a scheme or none and
\* a host, with or without "www", port and userinfo
UrlPrefixes ==
    {<<>>,
     <<"h", ":">>,
     <<"h", ":", "/", "/", "x", ".", "i", "o">>,
     <<"h", ":", "/", "/", "w", "w", "w", ".", "x", ".", "i", "o">>,
     <<"h", ":", "/", "/", "W", "W", "W", ".", "x", ".", "i", "o", ":", "8">>,
     <<"h", ":", "/", "/", "a", ".", "b", ".", "x", ".", "i", "o">>,
     <<"h", ":", "/", "/", "w", "w", "w", ".", "i", "o">>,
     <<"h", ":", "/", "/", "x">>,
     <<"/", "/", "x", ".", "i", "o", ":", "8">>,
     <<"h", ":", "/", "/", "u", "@", "x", ".", "i", "o">>,
     <<"h", ":", "/", "/", "u", ":", "p", "@", "x", ".", "i", "o">>,
     <<"h", ":", "/", "/", "u", "@", "w", "w", "w", ".", "x", ".", "i", "o", ":", "8">>,
     <<"H", ":", "/", "/", "x", ".", "i", "o", ":">>}
\* what follows: every text of "/", "?", "=", "_", "." and "a" up to MaxTail
UrlTails == SeqsUpTo({"/", "?", "=", "_", ".", "a"}, MaxTail)

\* the urls of the docstrings of _generate_foldername and _generate_filename
MailUrl ==
    <<"h", "t", "t", "p", "s", ":", "/", "/", "m", "a", "i", "l", ".", "a", "d", "m", "i", "n", ".", "d", "t", "u", ".", "d", "k", "/", "x">>
TestUrl ==
    <<"h", "t", "t", "p", "s", ":", "/", "/", "w", "w", "w", ".", "t", "e", "s", "t", ".", "c", "o", "m">>
ExampleUrl ==
    <<"h", "t", "t", "p", "s", ":", "/", "/", "e", "x", "a", "m", "p", "l", "e", ".", "c", "o", "m", "/", "p", "a", "t", "h", "?", "q", "u", "e", "r", "y", "=", "1", "2", "3">>

DerivedUrls ==
    {prefix \o tail : prefix \in UrlPrefixes, tail \in UrlTails}
    \cup {MailUrl, TestUrl, ExampleUrl}

PathInit ==
    /\ ProcessStart
    /\ config = DefaultConfig
    /\ fs = (<<Root>> :> DirNode) @@ (WorkspacePath :> DirNode)
    /\ call \in {[op |-> "import", url |-> url] : url \in DerivedUrls}
    /\ ret = Returned(None, <<>>)

\* BudoHtml._generate_foldername(url)
CallGenerateFoldername ==
    /\ call' = [op |-> "_generate_foldername", url |-> call.url]
    /\ ret' = Returned(GenerateFoldername(call.url), <<>>)
    /\ UNCHANGED <<logger, config, webcache, registry, fs, in_recursion_loop, net, trail>>

\* BudoHtml._generate_filename(url)
CallGenerateFilename ==
    /\ call' = [op |-> "_generate_filename", url |-> call.url]
    /\ ret' = Returned(GenerateFilename(call.url), <<>>)
    /\ UNCHANGED <<logger, config, webcache, registry, fs, in_recursion_loop, net, trail>>

\* BudoHtml._get_path_for_cached_html(url)
CallGetPathForCachedHtml ==
    /\ call' = [op |-> "_get_path_for_cached_html", url |-> call.url]
    /\ ret' = Returned(GetPathForCachedHtml(call.url), <<>>)
    /\ UNCHANGED <<logger, config, webcache, registry, fs, in_recursion_loop, net, trail>>

PathNext ==
    \/ CallGenerateFoldername
    \/ CallGenerateFilename
    \/ CallGetPathForCachedHtml

SpecPath == PathInit /\ [][PathNext]_vars

\* ------------------------------------------ properties of the derivation

\* the host of a url: its netloc after the userinfo, if any, and before the
\* port, if any
HostWithoutPort(url) ==
    LET netloc == UrlParse(url).netloc
        at == Max({k \in 1..Len(netloc) : netloc[k] = "@"} \cup {0})
    IN  Before(SubSeq(netloc, at + 1, Len(netloc)), ":")

\* the labels of the host but the last, without a leading "www" label that
\* other labels follow, joined with underscores
FolderOfHost(url) ==
    LET labels == Split(HostWithoutPort(url), ".")
        kept == SubSeq(labels, 1, Len(labels) - 1)
    IN  IF Len(kept) > 1 /\ LowerText(kept[1]) = <<"w", "w", "w">>
        THEN Join(Tail(kept), "_")
        ELSE Join(kept, "_")

FoldernameDone == call.op = "_generate_foldername" /\ ret.done
FilenameDone == call.op = "_generate_filename" /\ ret.done

\* C18: the folder name of every url is made of the labels of its host
\* without port: all but the last, less a leading "www", joined with
\* underscores.
C18_FolderFromHost ==
    FoldernameDone => ret.value = FolderOfHost(call.url)

\* C19: the filename of a non-empty url is not empty and holds only letters,
\* digits, ".", "_" and "-"; in the fallback it is the url with every other
\* character replaced by an underscore.
C19_FilenameIsValid ==
    (FilenameDone /\ call.url # <<>>) =>
        /\ ret.value # <<>>
        /\ \A k \in DOMAIN ret.value : ret.value[k] \in ValidChars
        /\ GenerateFilenameWithoutFallback(call.url) = <<>> =>
               /\ Len(ret.value) = Len(call.url)
               /\ \A k \in DOMAIN ret.value :
                      ret.value[k] = IF call.url[k] \in ValidChars
                                     THEN call.url[k] ELSE "_"

\* C19 witness: the filename of "a=a" is "a_a"
C19_Witness ==
    /\ FilenameDone
    /\ call.url = <<"a", "=", "a">>
    /\ ret.value = <<"a", "_", "a">>

\* C20: no filename begins or ends with an underscore.
C20_NoOuterUnderscore ==
    (FilenameDone /\ ret.value # <<>>) =>
        /\ ret.value[1] # "_"
        /\ ret.value[Len(ret.value)] # "_"

\* ------------------------------------------------- the network boundary

\* what urlopen, response.read and decode do: give a page, or raise URLError
\* (no address for the host, connection refused, no connection in time),
\* HTTPError (a status of 400 or more), TimeoutError (no response in time
\* once connected) or RemoteDisconnected (connection closed with no response)
TransportFailures == {"URLError", "HTTPError", "TimeoutError", "RemoteDisconnected"}
TransportOutcomes ==
    {[kind |-> "page", text |-> page] : page \in RawPages}
    \cup {[kind |-> kind, text |-> <<>>] : kind \in TransportFailures}
Timeouts == {1, 10}

\* _send_request: what it returns, logs and raises
SendRequest(url, timeout, outcome) ==
    IF outcome.kind = "page"
    THEN [text |-> outcome.text, log |-> <<>>, raised |-> "none"]
    ELSE IF outcome.kind \in {"URLError", "HTTPError"}
    THEN [text |-> <<>>, log |-> <<Error("retrieval_failed")>>, raised |-> "none"]
    ELSE [text |-> <<>>, log |-> <<>>, raised |-> outcome.kind]

\* fetch_url, with the outcome of the transport in place of what
\* _send_request returns
FetchUrlOverNetwork(wc, reg, f, flag, cfg, url, path, timeout, outcome) ==
    Bind(TryGetCachedHtml(wc, f, flag, cfg, url, path), LAMBDA cached :
        IF cached.raised # "none" \/ cached.value # <<>> THEN cached
        ELSE Bind(SendRequest(url, timeout, outcome), LAMBDA sent :
            IF sent.raised # "none"
            THEN CacheOutcome(cached.webcache, cached.fs, cached.flag, None,
                              sent.raised, cached.log \o sent.log, 1)
            ELSE RetrieveUnlessCached(cached, reg, cfg, url, path,
                                      [text |-> sent.text, log |-> sent.log])))

\* BudoHtml._send_request(url, timeout)
DoSendRequest ==
    \E url \in Urls, timeout \in Timeouts, outcome \in TransportOutcomes :
      \E r \in {SendRequest(url, timeout, outcome)} :
        /\ TotalRetrievals < MaxFetches
        /\ net' = Put(net, url, Retrievals(url) + 1)
        /\ call' = [op |-> "_send_request", url |-> url, timeout |-> timeout,
                    outcome |-> outcome]
        /\ ret' = [done |-> TRUE, raised |-> r.raised,
                   value |-> IF r.raised = "none" THEN r.text ELSE None,
                   log |-> r.log, requests |-> 1]
        /\ trail' = Snapshot
        /\ UNCHANGED <<logger, config, registry, webcache, fs, in_recursion_loop>>

\* BudoHtml.fetch_url(url, path, timeout)
DoFetchUrlOverNetwork ==
    \E url \in Urls, path \in PathArgs, timeout \in Timeouts,
       outcome \in TransportOutcomes :
      \E r \in {FetchUrlOverNetwork(webcache, registry, fs, in_recursion_loop, config,
                                    url, path, timeout, outcome)} :
        /\ TotalRetrievals < MaxFetches
        /\ webcache' = r.webcache
        /\ fs' = r.fs
        /\ in_recursion_loop' = r.flag
        /\ net' = IF r.requests > 0 THEN Put(net, url, Retrievals(url) + 1) ELSE net
        /\ call' = [op |-> "fetch_url", url |-> url, path |-> path,
                    timeout |-> timeout, outcome |-> outcome]
        /\ ret' = Answered(r)
        /\ trail' = Snapshot
        /\ UNCHANGED <<logger, config, registry>>

NetNext ==
    \/ DoSendRequest
    \/ DoFetchUrlOverNetwork

SpecNet == CacheInit /\ [][NetNext]_vars

\* C21: _send_request raises nothing when the transport fails: it logs the
\* failure and returns the empty string.
C21_TransportFailureGivesEmptyText ==
    (call.op = "_send_request" /\ ret.done /\ call.outcome.kind # "page") =>
        /\ ret.raised = "none"
        /\ ret.value = <<>>
        /\ LoggedAt("error")

\* C23: no other url is given the path that _get_path_for_cached_html gives
\* the url of the call.
C23_OnePathPerUrl ==
    (call.op = "_get_path_for_cached_html" /\ ret.done) =>
        \A other \in DerivedUrls \ {call.url} : GetPathForCachedHtml(other) # ret.value

\* the path of the url of the call without its leading "/", and its query
PathOfCall ==
    LET path == UrlParse(call.url).path IN
    IF path # <<>> /\ Head(path) = "/" THEN Tail(path) ELSE path
QueryOfCall == UrlParse(call.url).query

\* C27: the filename of a url with a path and a query is the sanitized path,
\* an underscore and the sanitized query, less the underscores at its ends;
\* that of "https://example.com/path?query=123" is "path_query_123".
C27_PathAndQueryAreSeparated ==
    FilenameDone =>
        /\ call.url = ExampleUrl =>
               ret.value = <<"p", "a", "t", "h", "_", "q", "u", "e", "r", "y", "_", "1", "2", "3">>
        /\ (PathOfCall # <<>> /\ QueryOfCall # <<>>
            /\ Strip(Sanitize(PathOfCall \o QueryOfCall), "_") # <<>>) =>
               ret.value = Strip(Sanitize(PathOfCall) \o <<"_">> \o Sanitize(QueryOfCall),
                                 "_")

\* ------------------------------------------ the extraction layer (wowhead)

\* str(n) of an int that is not negative
Digit(d) == <<"0", "1", "2", "3", "4", "5", "6", "7", "8", "9">>[d + 1]
RECURSIVE Decimal(_)
Decimal(n) == IF n < 10 THEN <<Digit(n)>> ELSE Decimal(n \div 10) \o <<Digit(n % 10)>>

\* "https://www.wowhead.com/"
WowheadSite ==
    <<"h", "t", "t", "p", "s", ":", "/", "/", "w", "w", "w", ".", "w", "o", "w", "h",
      "e", "a", "d", ".", "c", "o", "m", "/">>

\* the target_url, html_start and html_end of the three url families
WowheadItemTarget ==
    <<"w", "o", "w", "h", "e", "a", "d", ".", "c", "o", "m", "/", "i", "t", "e", "m",
      "=">>
WowheadItemStart ==
    <<"<", "h", "1", " ", "c", "l", "a", "s", "s", "=", "\"", "h", "e", "a", "d", "i",
      "n", "g", "-", "s", "i", "z", "e", "-", "1", "\"", ">">>
WowheadItemEnd ==
    <<"<", "h", "2", " ", "c", "l", "a", "s", "s", "=", "\"", "h", "e", "a", "d", "i",
      "n", "g", "-", "s", "i", "z", "e", "-", "2", " ", "c", "l", "e", "a", "r", "\"",
      ">", "R", "e", "l", "a", "t", "e", "d", "<", "/", "h", "2", ">", "<", "/", "d",
      "i", "v", ">">>
WowheadZoneTarget ==
    <<"w", "o", "w", "h", "e", "a", "d", ".", "c", "o", "m", "/", "z", "o", "n", "e",
      "=">>
\* "wowhead.com/zone"
WowheadZoneTargetWithoutEquals == SubSeq(WowheadZoneTarget, 1, Len(WowheadZoneTarget) - 1)
WowheadZoneStart ==
    <<"<", "d", "i", "v", " ", "c", "l", "a", "s", "s", "=", "\"", "t", "e", "x", "t",
      "\"", ">">>
WowheadZoneEnd ==
    <<"v", "a", "r", " ", "t", "a", "b", "s", "R", "e", "l", "a", "t", "e", "d", " ",
      "=", " ", "n", "e", "w", " ", "T", "a", "b", "s">>
WowheadZoneListTarget ==
    <<"w", "o", "w", "h", "e", "a", "d", ".", "c", "o", "m", "/", "z", "o", "n", "e",
      "s">>
WowheadZoneListStart ==
    <<"<", "s", "c", "r", "i", "p", "t", " ", "t", "y", "p", "e", "=", "\"", "t", "e",
      "x", "t", "/", "j", "a", "v", "a", "s", "c", "r", "i", "p", "t", "\"", ">", "/",
      "/">>
WowheadZoneListEnd ==
    <<"/", "/", "]", "]", ">", "<", "/", "s", "c", "r", "i", "p", "t", ">">>
WowheadTargets == {WowheadItemTarget, WowheadZoneTarget, WowheadZoneListTarget}

\* ScrapeUtils.Trimmer.register_trimming_ruleset(target_url, start, end) and
\* ScrapeUtils.Html.fetch_url(url): the registry and the cache of the
\* scraping library, as the extraction layer calls them
ScrapeUtilsRegisterTrimmingRuleset(reg, target_url, start, end) ==
    RegisterTrimmingRuleset(reg, target_url, start, end, Absent, Absent)
ScrapeUtilsFetchUrl(wc, reg, f, flag, cfg, url, response) ==
    FetchUrl(wc, reg, f, flag, cfg, url, Some(GetPathForCachedHtml(url)), response)

\* _set_trimmer_ruleset_for_wowhead_items
SetTrimmerRulesetForWowheadItems(reg) ==
    ScrapeUtilsRegisterTrimmingRuleset(reg, WowheadItemTarget, WowheadItemStart,
                                       WowheadItemEnd)

SetTrimmerRulesetForWowheadZoneWithoutEquals(reg) ==
    ScrapeUtilsRegisterTrimmingRuleset(reg, WowheadZoneTargetWithoutEquals,
                                       WowheadZoneStart, WowheadZoneEnd)

\* _set_trimmer_ruleset_for_wowhead_zone
SetTrimmerRulesetForWowheadZone(reg) ==
    ScrapeUtilsRegisterTrimmingRuleset(reg, WowheadZoneTarget, WowheadZoneStart,
                                       WowheadZoneEnd)

\* _set_trimmer_ruleset_for_wowhead_zone_list
SetTrimmerRulesetForWowheadZoneList(reg) ==
    ScrapeUtilsRegisterTrimmingRuleset(reg, WowheadZoneListTarget, WowheadZoneListStart,
                                       WowheadZoneListEnd)

\* the urls the three scrape functions build
WowheadItemUrl(item_id) == WowheadSite \o <<"i", "t", "e", "m", "=">> \o Decimal(item_id)
WowheadZoneUrl(zone_id) == WowheadSite \o <<"z", "o", "n", "e", "=">> \o Decimal(zone_id)
WowheadZoneListUrl(zone_list) == WowheadSite \o <<"z", "o", "n", "e", "s", "/">> \o zone_list

\* the folders of the parsed data, and <name>.json in a folder
WowheadItemFolder == Append(WorkspacePath,
    <<"w", "o", "w", "h", "e", "a", "d", "_", "i", "t", "e", "m", "s">>)
WowheadZoneFolder == Append(WorkspacePath,
    <<"w", "o", "w", "h", "e", "a", "d", "_", "z", "o", "n", "e", "s">>)
JsonFile(folder, name) ==
    folder \o Split(name \o <<".", "j", "s", "o", "n">>, "/")

\* json.dumps(parsed_data): the text kept here is the html the data was parsed
\* from, in braces
ParsedJson(html) == <<"{">> \o html \o <<"}">>

\* what a scrape function leaves once the ruleset is registered (`set`) and
\* the url fetched (`fetched`): it saves the parsed data when the html is
\* not empty. `at_fetch` is the registry fetch_url was called with.
AfterWowheadFetch(set, url, fetched, cfg, path) ==
    IF fetched.raised # "none" \/ fetched.value = <<>>
    THEN [registry |-> set.registry, at_fetch |-> set.registry, url |-> url,
          webcache |-> fetched.webcache, fs |-> fetched.fs, flag |-> fetched.flag,
          raised |-> fetched.raised, log |-> set.log \o fetched.log,
          requests |-> fetched.requests]
    ELSE Bind(WriteTextfile(fetched.fs, fetched.flag, cfg, path, ParsedJson(fetched.value)),
              LAMBDA saved :
                  [registry |-> set.registry, at_fetch |-> set.registry, url |-> url,
                   webcache |-> fetched.webcache, fs |-> saved.fs, flag |-> saved.flag,
                   raised |-> saved.raised, log |-> set.log \o fetched.log \o saved.log,
                   requests |-> fetched.requests])

\* scrape_wowhead_item
ScrapeWowheadItem(wc, reg, f, flag, cfg, item_id, response) ==
    Bind(SetTrimmerRulesetForWowheadItems(reg), LAMBDA set :
    Bind(WowheadItemUrl(item_id), LAMBDA url :
    Bind(ScrapeUtilsFetchUrl(wc, set.registry, f, flag, cfg, url, response),
         LAMBDA fetched :
             AfterWowheadFetch(set, url, fetched, cfg,
                               JsonFile(WowheadItemFolder, Decimal(item_id))))))

\* scrape_wowhead_zone
ScrapeWowheadZone(wc, reg, f, flag, cfg, zone_id, response) ==
    Bind(SetTrimmerRulesetForWowheadZone(reg), LAMBDA set :
    Bind(WowheadZoneUrl(zone_id), LAMBDA url :
    Bind(ScrapeUtilsFetchUrl(wc, set.registry, f, flag, cfg, url, response),
         LAMBDA fetched :
             AfterWowheadFetch(set, url, fetched, cfg,
                               JsonFile(WowheadZoneFolder, Decimal(zone_id))))))

\* scrape_wowhead_zone_list; its data is saved in the folder of the zones
ScrapeWowheadZoneList(wc, reg, f, flag, cfg, zone_list, response) ==
    Bind(SetTrimmerRulesetForWowheadZoneList(reg), LAMBDA set :
    Bind(WowheadZoneListUrl(zone_list), LAMBDA url :
    Bind(ScrapeUtilsFetchUrl(wc, set.registry, f, flag, cfg, url, response),
         LAMBDA fetched :
             AfterWowheadFetch(set, url, fetched, cfg,
                               JsonFile(WowheadZoneFolder, zone_list)))))

\* the ids and the zone lists scraped: "war-within/dungeons" and "dungeons"
ItemIds == {7, 19019}
ZoneIds == {14}
WarWithinDungeons ==
    <<"w", "a", "r", "-", "w", "i", "t", "h", "i", "n", "/", "d", "u", "n", "g", "e",
      "o", "n", "s">>
ZoneLists == {WarWithinDungeons, SubSeq(WarWithinDungeons, 12, 19)}

\* what the site serves: nothing, or a page with the markers of a family
PageOf(start, end) ==
    [text |-> <<"n">> \o start \o <<"x">> \o end \o <<"n">>, log |-> <<>>]
NoPage == [text |-> <<>>, log |-> <<>>]
ItemPages == {NoPage, PageOf(WowheadItemStart, WowheadItemEnd)}
ZonePages == {NoPage, PageOf(WowheadZoneStart, WowheadZoneEnd)}
ZoneListPages == {NoPage, PageOf(WowheadZoneListStart, WowheadZoneListEnd)}

MaxScrapes == 3

\* the scrape calls made so far
Scrapes == IF "scrapes" \in DOMAIN trail THEN trail.scrapes ELSE 0

WowInit ==
    /\ ProcessStart
    /\ config \in {[DefaultConfig EXCEPT !.read_webcache = r, !.write_webcache = w] :
                      r \in BOOLEAN, w \in BOOLEAN}
    /\ fs = (<<Root>> :> DirNode) @@ (WorkspacePath :> DirNode)
    /\ call = [op |-> "import"]
    /\ ret = Returned(None, <<>>)

\* the state a scrape call leaves; trail keeps the registry and the url
\* fetch_url was called with
WowheadScraped(op, arg, r) ==
    /\ Scrapes < MaxScrapes
    /\ registry' = r.registry
    /\ webcache' = r.webcache
    /\ fs' = r.fs
    /\ in_recursion_loop' = r.flag
    /\ net' = IF r.requests > 0 THEN Put(net, r.url, Retrievals(r.url) + 1) ELSE net
    /\ call' = [op |-> op, arg |-> arg, url |-> r.url]
    /\ ret' = [done |-> TRUE, raised |-> r.raised, value |-> None, log |-> r.log,
               requests |-> r.requests]
    /\ trail' = [stage |-> "fetch", op |-> op, registry |-> r.at_fetch, url |-> r.url,
                 scrapes |-> Scrapes + 1]
    /\ UNCHANGED <<logger, config>>

\* WowheadItem.scrape_wowhead_item(item_id)
DoScrapeWowheadItem ==
    \E item_id \in ItemIds, response \in ItemPages :
      \E r \in {ScrapeWowheadItem(webcache, registry, fs, in_recursion_loop, config,
                                  item_id, response)} :
        WowheadScraped("scrape_wowhead_item", item_id, r)

\* WowheadZone.scrape_wowhead_zone(zone_id)
DoScrapeWowheadZone ==
    \E zone_id \in ZoneIds, response \in ZonePages :
      \E r \in {ScrapeWowheadZone(webcache, registry, fs, in_recursion_loop, config,
                                  zone_id, response)} :
        WowheadScraped("scrape_wowhead_zone", zone_id, r)

\* WowheadZoneList.scrape_wowhead_zone_list(zone_list)
DoScrapeWowheadZoneList ==
    \E zone_list \in ZoneLists, response \in ZoneListPages :
      \E r \in {ScrapeWowheadZoneList(webcache, registry, fs, in_recursion_loop, config,
                                      zone_list, response)} :
        WowheadScraped("scrape_wowhead_zone_list", zone_list, r)

WowNext ==
    \/ DoScrapeWowheadItem
    \/ DoScrapeWowheadZone
    \/ DoScrapeWowheadZoneList

SpecWow == WowInit /\ [][WowNext]_vars

\* the target_url of the family of the scrape call made last
FamilyTarget ==
    IF call.op = "scrape_wowhead_item" THEN WowheadItemTarget
    ELSE IF call.op = "scrape_wowhead_zone" THEN WowheadZoneTarget
    ELSE WowheadZoneListTarget

WowheadScrapeDone ==
    call.op \in {"scrape_wowhead_item", "scrape_wowhead_zone", "scrape_wowhead_zone_list"}
    /\ ret.done

\* the target_urls registered when fetch_url was called that are part of
\* the url it was called with
MatchingAtFetch == {key \in DOMAIN trail.registry : Contains(trail.url, key)}

LoggingTopFolder == WorkspacePath \o << <<"budolib">>, <<"logging">> >>
LogArchiveFolder == Append(LoggingTopFolder, <<"archive">>)
LogHistoryFolder == Append(LoggingTopFolder, <<"history">>)
LogSessionFolder == Append(LoggingTopFolder, <<"session">>)

\* the levels and the folders in the order _run_setup goes through them
LogLevels == <<"debug", "info", "warning", "error", "critical">>
LogFolders == <<LogArchiveFolder, LogHistoryFolder, LogSessionFolder>>

\* logging.DEBUG .. logging.CRITICAL
LevelNo(level_name) ==
    CASE level_name = "debug" -> 10
      [] level_name = "info" -> 20
      [] level_name = "warning" -> 30
      [] level_name = "error" -> 40
      [] level_name = "critical" -> 50

\* _severity_level_meets_folder_threshhold
SeverityLevelMeetsFolderThreshhold(level, folder) ==
    LET severity_threshold == IF folder = LogHistoryFolder THEN 20
                              ELSE IF folder = LogArchiveFolder THEN 30
                              ELSE 0
    IN  level >= severity_threshold

\* folder / f"{level_name}.log"
LogFile(folder, level_name) == Append(folder, <<level_name, ".log">>)

\* the folders that get the lines of a level
FoldersOf(level_name) ==
    {LogFolders[k] : k \in {k \in 1..Len(LogFolders) :
        SeverityLevelMeetsFolderThreshhold(LevelNo(level_name), LogFolders[k])}}

IsAtOrBelow(path, folder) ==
    Len(path) >= Len(folder) /\ SubSeq(path, 1, Len(folder)) = folder

\* _delete_folder: shutil.rmtree of a folder inside the workspace
DeleteFolder(f, path) ==
    IF IsAtOrBelow(path, WorkspacePath)
    THEN [q \in {q \in DOMAIN f : ~IsAtOrBelow(q, path)} |-> f[q]]
    ELSE f

\* _prepare_directories; `expired` says whether the clock finds a log file of
\* the history folder older than the expiration
PrepareDirectories(f, cfg, expired) ==
    Bind(IF Exists(f, LogSessionFolder) THEN DeleteFolder(f, LogSessionFolder) ELSE f,
         LAMBDA cleared :
    Bind(MkdirParents(cleared, LogSessionFolder), LAMBDA with_session :
    Bind(IF ~cfg.log_history_enable_timeout THEN with_session
         ELSE MkdirParents(
                  IF /\ Exists(with_session, LogHistoryFolder)
                     /\ \E level_name \in {LogLevels[k] : k \in 1..Len(LogLevels)} :
                            Exists(with_session, LogFile(LogHistoryFolder, level_name))
                     /\ expired
                  THEN DeleteFolder(with_session, LogHistoryFolder)
                  ELSE with_session,
                  LogHistoryFolder),
         LAMBDA with_history : MkdirParents(with_history, LogArchiveFolder))))

\* the loops of _run_setup from the k-th pair of level and folder on:
\* logging.FileHandler opens the log file for appending at once, and the
\* logger is put into _loggers after its handler is added
RECURSIVE AddHandlers(_, _)
AddHandlers(done, k) ==
    IF k > Len(LogLevels) * Len(LogFolders) \/ done.raised # "none" THEN done
    ELSE LET level_name == LogLevels[((k - 1) \div Len(LogFolders)) + 1]
             folder == LogFolders[((k - 1) % Len(LogFolders)) + 1]
             file == LogFile(folder, level_name)
             opened == OpenForWriting(done.fs, file)
         IN  IF ~SeverityLevelMeetsFolderThreshhold(LevelNo(level_name), folder)
             THEN AddHandlers(done, k + 1)
             ELSE IF opened # "none"
             THEN [fs |-> done.fs, loggers |-> done.loggers, raised |-> opened]
             ELSE AddHandlers([fs |-> IF Exists(done.fs, file) THEN done.fs
                                      ELSE Put(done.fs, file, FileNode(0, <<>>)),
                               loggers |-> done.loggers \cup {level_name},
                               raised |-> "none"],
                              k + 1)

\* _run_setup
RunSetup(lg, f, cfg, expired) ==
    Bind(PrepareDirectories(f, cfg, expired), LAMBDA prepared :
         AddHandlers([fs |-> prepared, loggers |-> lg.loggers, raised |-> "none"], 1))

\* the logger and the file system after _run_setup has given `setup`: the
\* flags are set only when it has raised nothing
AfterSetup(lg, setup) ==
    [logger |-> [setup_in_progress |-> setup.raised # "none",
                 setup_done |-> setup.raised = "none",
                 loggers |-> setup.loggers,
                 setups |-> lg.setups + 1],
     fs |-> setup.fs, raised |-> setup.raised]

TryRunSetupIgnoresProgress(lg, f, cfg, expired) ==
    IF lg.setup_done THEN [logger |-> lg, fs |-> f, raised |-> "none"]
    ELSE Bind(RunSetup(lg, f, cfg, expired), LAMBDA setup : AfterSetup(lg, setup))

\* _try_run_setup
TryRunSetup(lg, f, cfg, expired) ==
    IF lg.setup_done THEN [logger |-> lg, fs |-> f, raised |-> "none"]
    ELSE IF lg.setup_in_progress
    THEN [logger |-> lg, fs |-> f,
          raised |-> "BudoLoggerAttemptedLoggingDuringSetupError"]
    ELSE Bind(RunSetup(lg, f, cfg, expired), LAMBDA setup : AfterSetup(lg, setup))

\* the file system after the handlers of a level have written a message
Emit(f, level_name, message) ==
    LET files == {LogFile(folder, level_name) : folder \in FoldersOf(level_name)} IN
    [q \in DOMAIN f \cup files |->
        IF q \in files
        THEN FileNode(0, (IF q \in DOMAIN f THEN f[q].data ELSE <<>>) \o message
                         \o <<"\n">>)
        ELSE f[q]]

\* debug, info, warning, error, critical: _try_print_and_setup and then the
\* logger of the level; `printed` says whether the message went to the console
Log(lg, f, cfg, level_name, message, expired) ==
    Bind(TryRunSetup(lg, f, cfg, expired), LAMBDA s :
        [logger |-> s.logger,
         fs |-> IF s.raised = "none" /\ level_name \in s.logger.loggers
                THEN Emit(s.fs, level_name, message) ELSE s.fs,
         raised |-> IF s.raised # "none" THEN s.raised
                    ELSE IF level_name \notin s.logger.loggers THEN "KeyError"
                    ELSE "none",
         printed |-> LevelNo(level_name) >= 20])

MaxLogCalls == 3

LogMessages == {<<"m">>}

\* the workspace before the first log call: new, or with the folders and the
\* files an earlier run has left, or with the history folder alone
LoggedBefore ==
    LET base == (<<Root>> :> DirNode) @@ (WorkspacePath :> DirNode)
        history == MkdirParents(base, LogHistoryFolder)
        folders == MkdirParents(MkdirParents(history, LogSessionFolder), LogArchiveFolder)
    IN  {base, history,
         Put(Put(folders, LogFile(LogSessionFolder, "debug"), FileNode(0, <<"o", "\n">>)),
             LogFile(LogHistoryFolder, "info"), FileNode(0, <<"o", "\n">>))}

LogInit ==
    /\ ProcessStart
    /\ config \in {("log_history_enable_timeout" :> enabled) @@ DefaultConfig :
                      enabled \in BOOLEAN}
    /\ fs \in LoggedBefore
    /\ call = [op |-> "import"]
    /\ ret = Returned(None, <<>>)

\* the log calls made so far
LogCalls == IF "calls" \in DOMAIN trail THEN trail.calls ELSE 0

\* a call of BudoLogger.<level_name>(message); trail keeps the logger the
\* call found
LogCall(level_name) ==
    \E message \in LogMessages, expired \in BOOLEAN :
      \E r \in {Log(logger, fs, config, level_name, message, expired)} :
        /\ LogCalls < MaxLogCalls
        /\ logger' = r.logger
        /\ fs' = r.fs
        /\ call' = [op |-> level_name, message |-> message, expired |-> expired]
        /\ ret' = [done |-> TRUE, raised |-> r.raised, value |-> None, log |-> <<>>,
                   printed |-> r.printed]
        /\ trail' = [stage |-> "log", op |-> level_name, calls |-> LogCalls + 1,
                     before |-> logger]
        /\ UNCHANGED <<config, webcache, registry, in_recursion_loop, net>>

\* BudoLogger.debug, info, warning, error, critical
DoDebug == LogCall("debug")
DoInfo == LogCall("info")
DoWarning == LogCall("warning")
DoError == LogCall("error")
DoCritical == LogCall("critical")

LogNext ==
    \/ DoDebug
    \/ DoInfo
    \/ DoWarning
    \/ DoError
    \/ DoCritical

SpecLog == LogInit /\ [][LogNext]_vars

LogCallDone == call.op \in {LogLevels[k] : k \in 1..Len(LogLevels)} /\ ret.done

\* C29: _run_setup is executed at most once, and only in the first log call;
\* a log call that finds the setup in progress raises
\* BudoLoggerAttemptedLoggingDuringSetupError and starts no setup.
C29_SetupRunsOnce ==
    /\ logger.setups <= 1
    /\ LogCallDone =>
        /\ logger.setups # trail.before.setups => trail.calls = 1
        /\ trail.before.setup_in_progress =>
            /\ ret.raised = "BudoLoggerAttemptedLoggingDuringSetupError"
            /\ logger = trail.before

\* a log call after a setup that has raised: the flag is still set
C29_Witness ==
    /\ LogCallDone
    /\ trail.calls > 1
    /\ trail.before.setup_in_progress
    /\ trail.before.setups = 1
    /\ ret.raised = "BudoLoggerAttemptedLoggingDuringSetupError"
    /\ logger.setups = 1

\* ------------------------------------- where the compressed backup is kept

\* the file system of the state with nothing at the primary path, as a read
\* that misses the file finds it
WithoutPrimaryFile == Remove(fs, PrimaryFile)

\* C32: the file that write_textfile compresses into for a path is the file
\* that a read of the path decompresses from once the primary file is gone,
\* and that decompression writes to the primary path.
C32_OneBackupLocation ==
    (WriteDone /\ config.try_write_compressed_backups /\ call.opened = "none") =>
        /\ GenerateCompressedSubpath(fs, call.path).path
               = GenerateCompressedSubpath(WithoutPrimaryFile, call.path).path
        /\ GenerateUncompressedSubpath(WithoutPrimaryFile, call.path).path = PrimaryFile

\* ------------------------------------------------------------ scrape_urls

\* the loop of scrape_urls from the outcome `done` on; responses[k] is what
\* the retrieval of the k-th turn gives if one is made
RECURSIVE ScrapeUrlsLoop(_, _, _, _, _, _, _)
ScrapeUrlsLoop(done, reg, cfg, use_selenium, urls, paths, responses) ==
    IF urls = <<>> \/ done.raised # "none" THEN done
    ELSE Bind(ScrapeUrl(done.webcache, reg, done.fs, done.flag, cfg, use_selenium,
                        Head(urls), PathIn(paths, Head(urls)), Head(responses)),
              LAMBDA scraped :
                  Bind(AfterFetch(done, Head(urls), PathWarning(paths, Head(urls)),
                                  scraped),
                       LAMBDA next : ScrapeUrlsLoop(next, reg, cfg, use_selenium,
                                                    Tail(urls), paths, Tail(responses))))

\* scrape_urls; `counts` are the retrievals counted for each url before the call
ScrapeUrls(wc, reg, f, flag, cfg, use_selenium, urls, paths, responses, counts) ==
    ScrapeUrlsLoop(CacheOutcome(wc, f, flag, <<>>, "none", <<>>, counts),
                   reg, cfg, use_selenium, urls, paths, responses)

\* the disk as earlier runs may have left it: as in CachedBefore, or with the
\* text "ab" at the path the caller gives for UrlA
ScrapedBefore ==
    LET base == (<<Root>> :> DirNode) @@ (WorkspacePath :> DirNode)
        given == WorkspacePath \o ExplicitPath
    IN  CachedBefore
        \cup {Put(MkdirParents(base, Parent(given)), given, FileNode(0, <<"a", "b">>))}

ScrapeInit ==
    /\ ProcessStart
    /\ config \in {[DefaultConfig EXCEPT !.read_webcache = r, !.write_webcache = w] :
                      r \in BOOLEAN, w \in BOOLEAN}
    /\ fs \in ScrapedBefore
    /\ call = [op |-> "import"]
    /\ ret = Returned(None, <<>>)

\* BudoWebscraper.scrape_urls(urls, paths, use_selenium)
DoScrapeUrls ==
    \E urls \in UrlLists, paths \in PathDicts, response \in CachePages,
       use_selenium \in BOOLEAN :
      \E r \in {ScrapeUrls(webcache, registry, fs, in_recursion_loop, config,
                           use_selenium, urls, paths, <<response, response>>, net)} :
        /\ TotalRetrievals + Len(urls) <= MaxFetches
        /\ webcache' = r.webcache
        /\ fs' = r.fs
        /\ in_recursion_loop' = r.flag
        /\ net' = r.requests
        /\ call' = [op |-> "scrape_urls", urls |-> urls, paths |-> paths,
                    use_selenium |-> use_selenium]
        /\ ret' = Answered(r)
        /\ trail' = Snapshot
        /\ UNCHANGED <<logger, config, registry>>

\* BudoTrimmer.register_trimming_ruleset, as an extraction module calls it
\* for its urls before it scrapes
DoRegisterRuleset ==
    \E ruleset \in CacheRulesets :
        LET r == RegisterTrimmingRuleset(registry, TargetSite, ruleset.start,
                                         ruleset.end, ruleset.replacements, Absent) IN
        /\ registry = EmptyDict
        /\ webcache = EmptyDict
        /\ registry' = r.registry
        /\ call' = [op |-> "register_trimming_ruleset", target_url |-> TargetSite,
                    start |-> ruleset.start, end |-> ruleset.end,
                    replacements |-> ruleset.replacements, validations |-> Absent]
        /\ ret' = Returned(None, r.log)
        /\ trail' = Snapshot
        /\ UNCHANGED <<logger, config, webcache, fs, in_recursion_loop, net>>

ScrapeNext ==
    \/ DoScrapeUrls
    \/ DoRegisterRuleset

SpecScrape == ScrapeInit /\ [][ScrapeNext]_vars

\* a scrape_urls call has returned that was given a path for UrlA, which was
\* no key of the in-memory map when the call began
ScrapedWithPath ==
    /\ Ended("scrape_urls")
    /\ ret.raised = "none"
    /\ call.paths.some
    /\ UrlA \in DOMAIN call.paths.val
    /\ UrlA \notin DOMAIN trail.webcache

\* where the caller wants the artifact of UrlA
GivenPath == ArtifactPath(UrlA, Some(call.paths.val[UrlA]))

\* the file at the path given for UrlA held text when the call began
GivenPathHeldText ==
    /\ IsFile(trail.fs, GivenPath)
    /\ trail.fs[GivenPath].kind = "file"
    /\ trail.fs[GivenPath].gz = 0
    /\ trail.fs[GivenPath].data # <<>>

RetrievedForUrlA ==
    (IF UrlA \in DOMAIN net THEN net[UrlA] ELSE 0)
        > (IF UrlA \in DOMAIN trail.net THEN trail.net[UrlA] ELSE 0)

\* C34: scrape_urls uses the path that paths gives for a url that is not in
\* the in-memory map: with disk reading enabled and text at that path, the
\* text is what the call returns for the url, with no retrieval; after a
\* retrieval, with disk writing enabled, the file at that path holds the
\* text stored for the url; with use_selenium set and not set.
C34_ScrapeUrlsHonoursPaths ==
    ScrapedWithPath =>
        /\ (config.read_webcache /\ GivenPathHeldText) =>
               /\ ret.value[UrlA] = trail.fs[GivenPath].data
               /\ ~RetrievedForUrlA
        /\ (config.write_webcache /\ RetrievedForUrlA) =>
               /\ IsFile(fs, GivenPath)
               /\ UrlA \in DOMAIN webcache
               /\ fs[GivenPath] = FileNode(0, webcache[UrlA])

\* ------------------------------------------- what the in-memory map keeps

KeepInit ==
    /\ logger = LoggerAtImport
    /\ webcache = EmptyDict
    /\ registry = RegisteredBefore
    /\ in_recursion_loop = FALSE
    /\ net = EmptyDict
    /\ trail = [stage |-> "none", op |-> "none"]
    /\ config \in {[DefaultConfig EXCEPT !.read_webcache = r, !.write_webcache = w] :
                      r \in BOOLEAN, w \in BOOLEAN}
    /\ fs \in ScrapedBefore
    /\ call = [op |-> "import"]
    /\ ret = Returned(None, <<>>)

\* BudoWebscraper.scrape_url(url, path), with use_selenium set or not
DoScrapeUrlWithPath ==
    \E url \in Urls, path \in PathArgs, response \in CachePages,
       use_selenium \in BOOLEAN :
      \E r \in {ScrapeUrl(webcache, registry, fs, in_recursion_loop, config,
                          use_selenium, url, path, response)} :
        /\ TotalRetrievals < MaxFetches
        /\ webcache' = r.webcache
        /\ fs' = r.fs
        /\ in_recursion_loop' = r.flag
        /\ net' = IF r.requests > 0 THEN Put(net, url, Retrievals(url) + 1) ELSE net
        /\ call' = [op |-> "scrape_url", url |-> url, path |-> path,
                    use_selenium |-> use_selenium]
        /\ ret' = Answered(r)
        /\ trail' = Snapshot
        /\ UNCHANGED <<logger, config, registry>>

\* BudoTrimmer.register_trimming_ruleset for the target_url of both urls,
\* whatever is registered for it
DoReplaceRuleset ==
    \E ruleset \in CacheRulesets :
        LET r == RegisterTrimmingRuleset(registry, TargetSite, ruleset.start,
                                         ruleset.end, ruleset.replacements, Absent) IN
        /\ registry' = r.registry
        /\ call' = [op |-> "register_trimming_ruleset", target_url |-> TargetSite,
                    start |-> ruleset.start, end |-> ruleset.end,
                    replacements |-> ruleset.replacements, validations |-> Absent]
        /\ ret' = Returned(None, r.log)
        /\ trail' = Snapshot
        /\ UNCHANGED <<logger, config, webcache, fs, in_recursion_loop, net>>

KeepNext ==
    \/ DoFetchUrl
    \/ DoScrapeUrlWithPath
    \/ DoReplaceRuleset

SpecKeep == KeepInit /\ [][KeepNext]_vars

\* a fetch_url or scrape_url call has ended whose url had a text in the
\* in-memory map, and not the empty one, when the call began
FetchedWhileHeld ==
    /\ Ended("fetch_url") \/ Ended("scrape_url")
    /\ call.url \in DOMAIN trail.webcache
    /\ trail.webcache[call.url] # <<>>

\* C35: a fetch_url or scrape_url call for a url whose value in the in-memory
\* map is not empty returns that value and leaves it in the map, whatever
\* ruleset is registered by then and whatever path the call is given.
C35_HeldTextIsKept ==
    FetchedWhileHeld =>
        /\ ret.raised = "none"
        /\ ret.value = trail.webcache[call.url]
        /\ webcache = trail.webcache
        /\ ret.requests = 0

\* the call was given a path, the file at that path holds another text than
\* the map, and the ruleset registered by now would change the text held
C35_Witness ==
    /\ FetchedWhileHeld
    /\ call.path.some
    /\ IsFile(trail.fs, ArtifactPath(call.url, call.path))
    /\ trail.fs[ArtifactPath(call.url, call.path)].data # trail.webcache[call.url]
    /\ TrimHtml(registry, call.url, trail.webcache[call.url], Absent).text
           # trail.webcache[call.url]
    /\ ret.value = trail.webcache[call.url]
    /\ webcache[call.url] = trail.webcache[call.url]

\* ------------------------------------------------- the re-entrancy flag

=============================================================================
